---- MODULE Spec2Model ----
(***************************************************************************)
(* A model of gx's commit-history graph renderer (src/git/log.rs,          *)
(* build_graph), of the loading of the history (get_log), and of the two   *)
(* commands that run an interactive screen: `gx log` (commands/log.rs with *)
(* ui/log_viewer.rs) and `gx checkout` without a query                     *)
(* (commands/checkout.rs with ui/branch_picker.rs), from the set-up of the *)
(* terminal to its restoration.                                            *)
(*                                                                         *)
(* Conventions.  A commit id (git2::Oid) is a positive natural; NoOid (0)  *)
(* is Option::None.  Rust's vectors are 0-based, TLA+ sequences 1-based:   *)
(* every lane position of the model is the code's position plus one, so    *)
(* the code's `pos + 1` (one past a position) is the model's position      *)
(* itself.  A rendered line is a sequence of one-character strings.        *)
(***************************************************************************)
EXTENDS Naturals, Integers, Sequences, FiniteSets, TLC

\* ------------------------------------------------------------------ bounds
\* Number of commits the revision walk yields (the entries of the LogGraph).
NumCommits == 4
\* Largest number of parents of one commit.
MaxParents == 2
\* Number of branch names handed to the branch picker (at most).
NumBranches == 3
\* Longest query typed into the branch picker.
MaxQuery == 2
\* The clock of the interactive screens advances in steps of ClockStep
\* milliseconds, and a screen is observed for MaxTicks steps.
MaxTicks == 8
ClockStep == 50
\* A burst of selection changes is counted up to MaxBurst events.
MaxBurst == 5
\* Number of references build_ref_map iterates over (at most).
MaxRefs == 2
\* Largest score the fuzzy scorer gives a candidate.
MaxScore == 2
\* The greatest height of the commit list, in rows, where scrolling is watched.
MaxHeight == 3
\* The greatest number of paths git reports to the file picker.
MaxFiles == 2

\* ------------------------------------------------------- program constants
\* ui/log_viewer.rs: const DEBOUNCE_MS
LOG_DEBOUNCE_MS == 100
\* ui/branch_picker.rs: const DEBOUNCE_MS
PICKER_DEBOUNCE_MS == 150
\* event::poll(Duration::from_millis(50)) of both screens
POLL_MS == 50
\* ui/log_viewer.rs: the step of PageUp and PageDown
PAGE_SIZE == 10

VARIABLES
    \* build_graph / get_log
    entries,        \* the display sequence of commit ids (LogEntry.oid)
    parent_map,     \* commit id -> its ordered parent ids
    lanes,          \* the LaneTable: Vec<Option<Oid>>
    graph_lines,    \* the lines rendered so far
    row,            \* position of build_graph's `for entry in entries` loop
    last,           \* what the most recent loop iteration computed
    result,         \* the LogGraph get_log returned, or NoResult
    \* the interactive screens
    screen,         \* which screen runs: "log", "picker" or "none"
    now,            \* the monotonic clock (Instant::now()), in milliseconds
    pc,             \* position of the screen's loop
    poll_start,     \* when the pending event::poll began
    lv,             \* the locals of log_viewer::run
    bp,             \* the locals of branch_picker::run
    all_branches,   \* the names handed to branch_picker::run
    outcome,        \* what run returned, or NoOutcome
    obs,            \* history: what an observer of the screen has seen
    frame,          \* the frame terminal.draw put on the screen in this
                    \* iteration of the loop, NoFrame before the draw
    ev,             \* history: the key event the loop has just handled
    watch,          \* which history is kept: "fetch", "burst" or "keys"
    term,           \* the terminal: raw mode and alternate screen
    exit,           \* what the command returned to its caller, or NoExit
    \* the loading loop of get_log
    load,           \* the repository get_log reads and the loop's locals
    \* the branch matcher and `gx checkout <query>`
    co,             \* the candidates, their scores, and the command's locals
    \* the dialogs
    cf,             \* the locals of confirm::run
    fp              \* the locals of file_picker::run

gvars == <<entries, parent_map, lanes, graph_lines, row, last, result>>
uvars == <<screen, now, pc, poll_start, lv, bp, all_branches, outcome, obs,
           frame, ev, watch, term, exit>>
dvars == <<cf, fp>>
vars == <<gvars, uvars, load, co, dvars>>

\* ------------------------------------------------------------ small helpers
NoOid == 0
NoResult == [returned |-> FALSE]
NoRow == [index |-> 0]
NoName == <<>>
NoOutcome == [kind |-> "running"]
\* stable_since: when the highlighted item last changed; fetch_count, fetch_item
\* and fetch_at: the detail fetches made since then, the item of the latest
\* and its time.
\* burst_len and burst_fetches: the number of changes of the highlighted item
\* that followed one another by less than the debounce window, the latest
\* included (counted up to MaxBurst), and the detail fetches made since the
\* first of them.
\* ripe: the loop's latest test of the debounce found the window elapsed.
NoObs == [stable_since |-> 0, fetch_count |-> 0, fetch_item |-> 0, fetch_at |-> 0,
          burst_len |-> 0, burst_fetches |-> 0, ripe |-> FALSE]
\* The values of the screens' variables while no screen runs.
NoFrame == [drawn |-> FALSE]
NoEvent == [handled |-> FALSE]
NoExit == [kind |-> "running"]
TermOff == [raw |-> FALSE, alt |-> FALSE]
NoLoad == [phase |-> "none"]
NoCheckout == [phase |-> "none"]
NoConfirm == [selected |-> 0]
NoFiles == [all_files |-> <<>>]
NoDialog == cf = NoConfirm /\ fp = NoFiles
NoScreen ==
    /\ screen = "none"
    /\ now = 0
    /\ pc = "idle"
    /\ poll_start = 0
    /\ lv = <<>>
    /\ bp = <<>>
    /\ all_branches = <<>>
    /\ outcome = NoOutcome
    /\ obs = NoObs
    /\ frame = NoFrame
    /\ ev = NoEvent
    /\ watch = "none"
    /\ NoDialog
    /\ term = TermOff
    /\ exit = NoExit

Max(a, b) == IF a >= b THEN a ELSE b

\* All sequences over S of length 0..n.
SeqsUpTo(S, n) == UNION {[1..k -> S] : k \in 0..n}

\* The id of a commit the walk did not yield (it lies beyond `limit`): it can
\* be named as a parent but never gets a row.
Beyond == NumCommits + 1

\* ------------------------------------------------- build_graph (git/log.rs)
\* The positions of the lanes waiting for this commit, in ascending order.
matching_lanes(ls, oid) ==
    SelectSeq([i \in 1..Len(ls) |-> i], LAMBDA i : ls[i] = oid)

\* lanes.iter().position(|l| l.is_none()): the first empty slot, 0 if none.
FirstFree(ls) ==
    IF \E i \in 1..Len(ls) : ls[i] = NoOid
    THEN CHOOSE i \in 1..Len(ls) :
            ls[i] = NoOid /\ \A j \in 1..(i - 1) : ls[j] # NoOid
    ELSE 0

\* Faulty variant: the row takes the last lane waiting for the commit.
ChooseCommitLane_last(ls, oid) ==
    LET m == matching_lanes(ls, oid)
        free == FirstFree(ls)
    IN  IF m # <<>> THEN [lanes |-> ls, commit_lane |-> m[Len(m)]]
        ELSE IF free # 0
             THEN [lanes |-> [ls EXCEPT ![free] = oid], commit_lane |-> free]
             ELSE [lanes |-> Append(ls, oid), commit_lane |-> Len(ls) + 1]

\* The commit lane and the table after the choice (a free or appended slot is
\* stamped with the commit's own id).
ChooseCommitLane(ls, oid) ==
    LET m == matching_lanes(ls, oid)
        free == FirstFree(ls)
    IN  IF m # <<>> THEN [lanes |-> ls, commit_lane |-> m[1]]
        ELSE IF free # 0
             THEN [lanes |-> [ls EXCEPT ![free] = oid], commit_lane |-> free]
             ELSE [lanes |-> Append(ls, oid), commit_lane |-> Len(ls) + 1]

\* Faulty variant: the other matching lanes are not recognised.
closing_lanes_none(m, commit_lane) == <<>>

\* The other matching lanes: they merge into this commit.
closing_lanes(m, commit_lane) == SelectSeq(m, LAMBDA i : i # commit_lane)

\* Faulty variant: the check for an already pending parent is missing.
already_tracked_never(ls, parent) == FALSE

\* lanes.contains(&Some(parent))
already_tracked(ls, parent) == \E i \in 1..Len(ls) : ls[i] = parent

\* The loop over parents.iter().skip(1): acc is new_branches so far.
RECURSIVE NewBranchesFrom(_, _, _, _)
NewBranchesFrom(ls, parents, k, acc) ==
    IF k > Len(parents) THEN acc
    ELSE IF already_tracked(ls, parents[k])
         THEN NewBranchesFrom(ls, parents, k + 1, acc)
         ELSE NewBranchesFrom(ls, parents, k + 1,
                  Append(acc, [pos |-> Len(ls) + Len(acc) + 1,
                               parent |-> parents[k]]))

\* Faulty variant: the first parent is not skipped.
new_branches_noskip(ls, parents) ==
    IF Len(parents) > 0 THEN NewBranchesFrom(ls, parents, 1, <<>>) ELSE <<>>

new_branches(ls, parents) ==
    IF Len(parents) > 1 THEN NewBranchesFrom(ls, parents, 2, <<>>) ELSE <<>>

RECURSIVE MaxPos(_)
MaxPos(nb) == IF nb = <<>> THEN 0 ELSE Max(nb[1].pos, MaxPos(Tail(nb)))

\* Faulty variant: the new positions do not widen the row.
Width_lanes_only(ls, nb) == Len(ls)

\* lanes.len().max(one past the highest new position, or 0)
Width(ls, nb) == Max(Len(ls), MaxPos(nb))

\* The character of column i of the row.
LineChar(i, ls, commit_lane, closing, nb) ==
    LET is_closing == \E k \in 1..Len(closing) : closing[k] = i
        is_new_branch == \E k \in 1..Len(nb) : nb[k].pos = i
    IN  IF i = commit_lane THEN "*"
        ELSE IF is_closing THEN "/"
        ELSE IF is_new_branch THEN "\\"
        ELSE IF i <= Len(ls) /\ ls[i] # NoOid THEN "|"
        ELSE " "

BuildLine(ls, commit_lane, closing, nb) ==
    [i \in 1..Width(ls, nb) |-> LineChar(i, ls, commit_lane, closing, nb)]

\* str::trim_end on a line of the graph alphabet: drop the trailing spaces.
RECURSIVE trim_end(_)
trim_end(line) ==
    IF line # <<>> /\ line[Len(line)] = " "
    THEN trim_end(SubSeq(line, 1, Len(line) - 1))
    ELSE line

\* Faulty variant: closing lanes are left pending.
ClearClosing_keep(ls, closing) == ls

\* 1. Clear closing lanes
ClearClosing(ls, closing) ==
    [i \in 1..Len(ls) |->
        IF \E k \in 1..Len(closing) : closing[k] = i THEN NoOid ELSE ls[i]]

\* 2. Update commit lane with first parent
SetCommitLane(ls, commit_lane, parents) ==
    [ls EXCEPT ![commit_lane] = IF parents = <<>> THEN NoOid ELSE parents[1]]

\* 3. Add new lanes for additional parents (padding with None up to pos)
RECURSIVE PadTo(_, _)
PadTo(ls, pos) == IF Len(ls) < pos THEN PadTo(Append(ls, NoOid), pos) ELSE ls

RECURSIVE AddNewLanes(_, _)
AddNewLanes(ls, nb) ==
    IF nb = <<>> THEN ls
    ELSE AddNewLanes([PadTo(ls, nb[1].pos) EXCEPT ![nb[1].pos] = nb[1].parent],
                     Tail(nb))

\* Faulty variant: no compaction.
Compact_keep(ls) == ls

\* 4. Compact: remove all None lanes and shift remaining left
Compact(ls) == SelectSeq(ls, LAMBDA l : l # NoOid)

\* One iteration of `for entry in entries`, as a record of everything it
\* computes; `table` is the LaneTable at the start of the iteration.
GraphRow(table, oid, parents) ==
    LET m       == matching_lanes(table, oid)
        chosen  == ChooseCommitLane(table, oid)
        ls      == chosen.lanes
        cl      == chosen.commit_lane
        closing == closing_lanes(m, cl)
        nb      == new_branches(ls, parents)
        line    == BuildLine(ls, cl, closing, nb)
        updated == AddNewLanes(
                       SetCommitLane(ClearClosing(ls, closing), cl, parents), nb)
    IN  [oid |-> oid, parents |-> parents, table |-> table,
         lanes |-> ls, commit_lane |-> cl, closing_lanes |-> closing,
         new_branches |-> nb, width |-> Width(ls, nb),
         line |-> line, pushed |-> trim_end(line),
         updated |-> updated, compacted |-> Compact(updated)]

\* Faulty variant: the loop stops one entry early.
RowsLeft_short(r, es) == r < Len(es)

\* The loop is over when every entry had its iteration.
RowsLeft(r, es) == r <= Len(es)

\* ---------------------------------------------------------------- inputs
\* A commit names each of its parents once.
Distinct(s) == \A i, j \in 1..Len(s) : i # j => s[i] # s[j]

\* Parent lists of the k-th of n entries.  The walk is topological (children
\* before parents), so a parent is a later entry or a commit beyond the limit.
ParentLists(k, n) ==
    {ps \in SeqsUpTo(((k + 1)..n) \cup {Beyond}, MaxParents) : Distinct(ps)}

\* get_log hands build_graph the entries and the parent map of all of them.
\* The map is read-only and build_graph reads the parents of an entry in that
\* entry's iteration only, so the model fixes them there: parent_map is the
\* part of the map the loop has read, and the runs are those of a map fixed
\* up front.  An unborn HEAD gives an empty walk (no entries).
GraphInit ==
    /\ \E n \in 0..NumCommits : entries = [i \in 1..n |-> i]
    /\ parent_map = <<>>
    /\ lanes = <<>>
    /\ graph_lines = <<>>
    /\ row = 1
    /\ last = NoRow
    /\ result = NoResult
    /\ NoScreen
    /\ load = NoLoad
    /\ co = NoCheckout

\* log.rs:106-200, one iteration of the loop
BuildGraphRow ==
    /\ result = NoResult
    /\ RowsLeft(row, entries)
    /\ \E parents \in ParentLists(row, Len(entries)) :
        LET r == GraphRow(lanes, entries[row], parents) IN
        /\ parent_map' = Append(parent_map, parents)
        /\ graph_lines' = Append(graph_lines, r.pushed)
        /\ lanes' = r.compacted
        /\ last' = [index |-> row] @@ r
    /\ row' = row + 1
    /\ UNCHANGED <<entries, result, dvars, uvars, load, co>>

\* log.rs:72-77 and 202: build_graph returns, get_log wraps the LogGraph
GetLogReturn ==
    /\ result = NoResult
    /\ ~RowsLeft(row, entries)
    /\ result' = [returned |-> TRUE, entries |-> entries,
                  graph_lines |-> graph_lines]
    /\ UNCHANGED <<entries, parent_map, lanes, graph_lines, row, last, dvars, uvars,
                   load, co>>

GraphNext == BuildGraphRow \/ GetLogReturn

SpecGraph == GraphInit /\ [][GraphNext]_vars

\* ------------------------------------------------ claims about build_graph
Range(s) == {s[i] : i \in 1..Len(s)}
MinOf(S) == CHOOSE x \in S : \A y \in S : x <= y
Rendered == last.index >= 1
\* The slots of the row's LaneTable pending the row's commit, and its empty
\* slots, read off the table as it was when the row began.
PendingSlots == {i \in 1..Len(last.table) : last.table[i] = last.oid}
EmptySlots == {i \in 1..Len(last.table) : last.table[i] = NoOid}
\* The lane count of the row: the table, plus the commit lane when appended.
LaneCount ==
    IF PendingSlots = {} /\ EmptySlots = {}
    THEN Len(last.table) + 1 ELSE Len(last.table)
\* The parents after the first that no lane of the table is pending.
UntrackedLaterParents ==
    IF Len(last.parents) > 1
    THEN SelectSeq(Tail(last.parents), LAMBDA p : p \notin Range(last.table))
    ELSE <<>>

\* The history is strictly linear: every entry's only parent is the next
\* entry, and the last entry is a root or has one parent beyond the limit.
LinearHistory ==
    /\ Len(parent_map) = Len(entries)
    /\ \A k \in 1..Len(entries) :
        IF k < Len(entries) THEN parent_map[k] = <<entries[k + 1]>>
        ELSE Len(parent_map[k]) <= 1

\* C1: a strictly linear history of N >= 1 commits renders as N lines, each
\* exactly the one-character string "*".
C1_LinearIsStars ==
    (result.returned /\ LinearHistory) =>
        /\ Len(result.graph_lines) = Len(entries)
        /\ \A i \in 1..Len(result.graph_lines) : result.graph_lines[i] = <<"*">>

C1_Witness ==
    result.returned /\ LinearHistory /\ Len(entries) = NumCommits

\* The display sequence M, B, C, A (or M, C, B, A): entries 1..4 with M = 1
\* merging 2 and 3 in either parent order, and 2 and 3 both on A = 4.
Diamond ==
    /\ Len(entries) = 4
    /\ Len(parent_map) >= 3
    /\ parent_map[1] \in {<<2, 3>>, <<3, 2>>}
    /\ parent_map[2] = <<4>>
    /\ parent_map[3] = <<4>>

\* C2: in the diamond M's row has `*` in M's own lane, the two lanes left
\* awaiting A collapse on A's row into one `*` column and a closing `/`, and
\* no lane for A's line of history is duplicated after A's row.
C2_DiamondCollapses ==
    (Diamond /\ last.index = 4) =>
        /\ graph_lines[1][1] = "*"
        /\ last.table = <<4, 4>>
        /\ graph_lines[4] = <<"*", "/">>
        /\ Len(lanes) <= 1
        /\ 4 \notin Range(lanes)
        /\ lanes = (IF last.parents = <<>> THEN <<>> ELSE <<last.parents[1]>>)

C2_Witness == Diamond /\ result.returned /\ parent_map[4] # <<>>

\* C3: build_graph returns one line per entry, so the LogGraph get_log
\* returns has as many graph lines as entries, and line i is the row rendered
\* for entry i.
C3_OneLinePerEntry ==
    /\ result.returned => Len(result.entries) = Len(result.graph_lines)
    /\ Rendered =>
        /\ Len(graph_lines) = last.index
        /\ last.oid = entries[last.index]
        /\ graph_lines[last.index] = last.pushed

C3_Witness ==
    result.returned /\ Len(result.entries) = NumCommits
        /\ \E k \in 1..Len(parent_map) : Len(parent_map[k]) > 1

\* C4: the `*` of a row is in the first slot pending the commit if there is
\* one, otherwise in the first empty slot, otherwise in a slot appended at
\* the end of the LaneTable.
C4_CommitLaneChoice ==
    Rendered =>
        LET star == IF PendingSlots # {} THEN MinOf(PendingSlots)
                    ELSE IF EmptySlots # {} THEN MinOf(EmptySlots)
                    ELSE Len(last.table) + 1
        IN  /\ last.commit_lane = star
            /\ graph_lines[last.index][star] = "*"
            /\ \A i \in 1..Len(graph_lines[last.index]) :
                  graph_lines[last.index][i] = "*" => i = star
            /\ Len(last.lanes) = LaneCount

C4_Witness ==
    Rendered /\ Cardinality(PendingSlots) = 2 /\ MinOf(PendingSlots) = 2

\* C5: every slot pending the commit other than the commit lane is rendered
\* `/` on the row and is cleared from the LaneTable after the row.
C5_ClosingLanes ==
    Rendered =>
        /\ \A i \in PendingSlots \ {last.commit_lane} :
              /\ graph_lines[last.index][i] = "/"
              /\ last.updated[i] = NoOid
        /\ last.oid \notin Range(lanes)
        /\ Len(lanes) = Cardinality({i \in 1..Len(last.updated) :
                                        last.updated[i] # NoOid})

C5_Witness ==
    Rendered /\ Cardinality(PendingSlots) = 2 /\ Len(last.table) = 3

\* C6: on a merge row every parent after the first that no lane is pending
\* becomes a new lane appended after all known lanes, rendered `\` and holding
\* that parent from the next row on; a later parent that a lane is already
\* pending gets no new lane and no `\`.
C6_NewLanes ==
    Rendered =>
        LET new == UntrackedLaterParents
            line == graph_lines[last.index]
        IN  /\ \A j \in 1..Len(new) :
                  /\ LaneCount + j <= Len(line)
                  /\ line[LaneCount + j] = "\\"
                  /\ last.updated[LaneCount + j] = new[j]
                  /\ new[j] \in Range(lanes)
            /\ Len(last.updated) = LaneCount + Len(new)
            /\ Cardinality({i \in 1..Len(line) : line[i] = "\\"}) = Len(new)

C6_Witness ==
    Rendered /\ Len(last.parents) > 1 /\ UntrackedLaterParents # <<>>
        /\ Len(last.table) >= 2

\* The other case of C6: a later parent that a lane is already pending.
C6_TrackedWitness ==
    Rendered /\ Len(last.parents) > 1 /\ UntrackedLaterParents = <<>>

\* C7: after a row the LaneTable is the row's table with the closing lanes
\* removed and the commit lane replaced by the first parent (removed for a
\* root), followed by the new lanes' parents, empty slots discarded and the
\* order of the rest preserved.
C7_TableAfterRow ==
    Rendered =>
        LET star == last.commit_lane
            kept == [i \in 1..LaneCount |->
                        IF i = star
                        THEN (IF last.parents = <<>> THEN NoOid
                              ELSE last.parents[1])
                        ELSE IF i \in PendingSlots THEN NoOid
                        ELSE last.table[i]]
        IN  lanes = SelectSeq(kept \o UntrackedLaterParents,
                              LAMBDA l : l # NoOid)

C7_Witness ==
    Rendered /\ last.parents = <<>> /\ Len(last.table) >= 2
        /\ last.commit_lane = 1 /\ Len(lanes) >= 1

\* C8: the length of a rendered line is the larger of the row's lane count
\* (commit lane included) and one past the highest newly appended position.
C8_LineWidth ==
    Rendered =>
        LET new == UntrackedLaterParents
            highest == LaneCount + Len(new)
        IN  Len(graph_lines[last.index]) =
                Max(LaneCount, IF new = <<>> THEN 0 ELSE highest)

C8_Witness ==
    Rendered /\ UntrackedLaterParents # <<>> /\ Len(last.table) >= 2
        /\ Len(graph_lines[last.index]) = Len(last.table) + 1


\* ======================================================================
\* get_log (git/log.rs:22-78): the loading of the references and commits.
\* The repository is load.repo ("ok", or "unreadable": get_repo, revwalk,
\* set_sorting or push fails), load.head ("born" or "unborn"), load.walk (what
\* the revision walk from HEAD yields, in its order: item k is commit k,
\* "ok" or "bad" when its lookup fails) and load.refs (what repo.references()
\* yields).  The loop's locals are entries, load.entry_refs (the refs field
\* of the entries) and load.ref_map.
\* ======================================================================
\* Faulty variant: the walk is cut one item late.
take_one_more(items, n) == SubSeq(items, 1, IF n + 1 <= Len(items) THEN n + 1 ELSE Len(items))

\* Iterator::take(n): the first n items, all of them if there are fewer
take(items, n) == SubSeq(items, 1, IF n <= Len(items) THEN n ELSE Len(items))

\* What revwalk yields: nothing when HEAD is unborn (nothing was pushed).
Walked(l) == IF l.head = "born" THEN l.walk ELSE <<>>

\* A reference: its shorthand is valid UTF-8 ("direct", "symbolic", "broken")
\* or not ("no_name"), it is direct or symbolic, a symbolic one resolves or
\* not ("broken"); "iter_err" is an error of the references iterator.
\* name is Reference::shorthand(), the full name without its namespace: a
\* branch and a tag (refs/heads/x, refs/tags/x) have the same shorthand.
RefKinds == {"direct", "symbolic", "broken", "no_name", "iter_err"}
RefNames == {"main", "v1"}
Refs == [kind : {"direct", "symbolic"}, target : 1..2, name : RefNames]
            \cup [kind : {"broken", "no_name", "iter_err"}, target : {NoOid},
                  name : {"main"}]

\* The walks: reachable commits, at most one of them with a failing lookup.
Walks ==
    {[k \in 1..n |-> IF k = bad THEN "bad" ELSE "ok"] :
        n \in 0..NumCommits, bad \in 0..NumCommits}

EmptyRefMap == [o \in 1..Beyond |-> <<>>]

LoadInit ==
    /\ entries = <<>>
    /\ parent_map = <<>>
    /\ lanes = <<>>
    /\ graph_lines = <<>>
    /\ row = 1
    /\ last = NoRow
    /\ result = NoResult
    /\ NoScreen
    /\ co = NoCheckout
    /\ \E repo \in {"ok", "unreadable"}, head \in {"born", "unborn"},
          walk \in Walks, limit \in 0..(NumCommits + 1),
          refs \in SeqsUpTo(Refs, MaxRefs) :
        /\ head = "unborn" => walk = <<>>
        /\ repo = "unreadable" => (walk = <<>> /\ refs = <<>>)
        /\ load = [phase |-> "open", repo |-> repo, head |-> head,
                   walk |-> walk, limit |-> limit, refs |-> refs,
                   ref_next |-> 1, ref_map |-> EmptyRefMap,
                   next |-> 1, entry_refs |-> <<>>]

\* log.rs:23-32: get_repo()?, revwalk()?, set_sorting()?, push()?
LoadOpen ==
    /\ load.phase = "open"
    /\ load' = [load EXCEPT !.phase = IF load.repo = "ok" THEN "refs" ELSE "err"]
    /\ UNCHANGED <<dvars, gvars, uvars, co>>

\* Faulty variant: a symbolic reference is not resolved.
BuildRefMapStep_direct_only ==
    /\ load.phase = "refs"
    /\ load.ref_next <= Len(load.refs)
    /\ LET r == load.refs[load.ref_next] IN
        IF r.kind = "iter_err"
        THEN load' = [load EXCEPT !.phase = "err"]
        ELSE IF r.kind = "direct"
        THEN load' = [load EXCEPT !.ref_next = @ + 1,
                         !.ref_map[r.target] = Append(@, r.name)]
        ELSE load' = [load EXCEPT !.ref_next = @ + 1]
    /\ UNCHANGED <<dvars, gvars, uvars, co>>

\* build_ref_map, log.rs:83-93, one reference: `reference?` returns the
\* iterator's error; a reference without a name or that does not resolve is
\* passed over; the others are entered under their target, by their
\* shorthand.
BuildRefMapStep ==
    /\ load.phase = "refs"
    /\ load.ref_next <= Len(load.refs)
    /\ LET r == load.refs[load.ref_next] IN
        IF r.kind = "iter_err"
        THEN load' = [load EXCEPT !.phase = "err"]
        ELSE IF r.kind \in {"direct", "symbolic"}
        THEN load' = [load EXCEPT !.ref_next = @ + 1,
                         !.ref_map[r.target] = Append(@, r.name)]
        ELSE load' = [load EXCEPT !.ref_next = @ + 1]
    /\ UNCHANGED <<dvars, gvars, uvars, co>>

\* log.rs:96 and 34-36: build_ref_map returns Ok(ref_map)
BuildRefMapReturn ==
    /\ load.phase = "refs"
    /\ load.ref_next > Len(load.refs)
    /\ load' = [load EXCEPT !.phase = "walk"]
    /\ UNCHANGED <<dvars, gvars, uvars, co>>

\* log.rs:38-70, one iteration of `for oid_result in revwalk.take(limit)`:
\* `?` on the walk's item, on find_commit and on short_id returns the error;
\* otherwise the entry is pushed with the refs of its commit.
LoadCommit ==
    /\ load.phase = "walk"
    /\ load.next <= Len(take(Walked(load), load.limit))
    /\ IF take(Walked(load), load.limit)[load.next] = "bad"
       THEN /\ load' = [load EXCEPT !.phase = "err"]
            /\ UNCHANGED entries
       ELSE /\ entries' = Append(entries, load.next)
            /\ load' = [load EXCEPT !.next = @ + 1,
                            !.entry_refs = Append(@, load.ref_map[load.next])]
    /\ UNCHANGED <<parent_map, lanes, graph_lines, row, last, result, dvars, uvars,
                   co>>

\* log.rs:72: the loop is over, build_graph is called on the entries
LoadDone ==
    /\ load.phase = "walk"
    /\ load.next > Len(take(Walked(load), load.limit))
    /\ load' = [load EXCEPT !.phase = "graph"]
    /\ UNCHANGED <<dvars, gvars, uvars, co>>

LoadNext ==
    \/ LoadOpen \/ BuildRefMapStep \/ BuildRefMapReturn
    \/ LoadCommit \/ LoadDone

SpecLoad == LoadInit /\ [][LoadNext]_vars

\* ---------------------------------------------------- claims about get_log
\* get_log has returned: its entries went to build_graph (whose lines complete
\* the LogGraph), or it returned an error.
LoadReturned == load.phase \in {"graph", "err"}
\* The number of commits reachable from HEAD.
Reachable == Len(Walked(load))
\* The references whose target, directly or after resolving, is commit o:
\* their positions in the enumeration, in ascending order.
PointingAt(o) ==
    SelectSeq([i \in 1..Len(load.refs) |-> i],
              LAMBDA i : load.refs[i].kind \in {"direct", "symbolic"}
                         /\ load.refs[i].target = o)
\* The names a commit should be listed with: one per such reference.
RefsOf(o) == [j \in 1..Len(PointingAt(o)) |-> load.refs[PointingAt(o)[j]].name]
\* The only failures are a commit whose lookup fails and references that do
\* not resolve.
OnlyPartialFailures ==
    /\ load.repo = "ok"
    /\ \A i \in 1..Len(load.refs) : load.refs[i].kind # "iter_err"

\* C19 as stated: when a commit's lookup fails or a reference fails to
\* resolve, get_log returns no error but the LogGraph of the remaining commits
\* (those of the first `limit` the walk yields whose lookup succeeds), each
\* with its remaining references.
C19_PartialDataOmitted ==
    (LoadReturned /\ OnlyPartialFailures) =>
        /\ load.phase = "graph"
        /\ entries = SelectSeq(
               [k \in 1..Len(take(Walked(load), load.limit)) |-> k],
               LAMBDA k : Walked(load)[k] = "ok")
        /\ \A i \in 1..Len(entries) : load.entry_refs[i] = RefsOf(entries[i])

\* C20: get_log(limit) returns at most limit entries, and, when fewer than
\* limit commits are reachable from HEAD, exactly those: the entries are the
\* first min(limit, reachable) commits of the walk, in its order.
C20_AtMostLimit ==
    load.phase = "graph" =>
        /\ Len(entries) <= load.limit
        /\ Reachable < load.limit => Len(entries) = Reachable
        /\ Reachable >= load.limit => Len(entries) = load.limit
        /\ \A i \in 1..Len(entries) : entries[i] = i

\* The walk was cut at a limit of at least two.
C20_Witness ==
    /\ load.phase = "graph"
    /\ load.limit >= 2
    /\ Reachable > load.limit
    /\ Len(entries) = load.limit

\* Fewer commits than the limit, all returned.
C20_BelowLimitWitness ==
    /\ load.phase = "graph"
    /\ Reachable >= 2
    /\ Reachable < load.limit
    /\ Len(entries) = Reachable

\* ======================================================================
\* The interactive commands.  Indices (selected_index) are 0-based as in the
\* code; entry i of a vector v is v[i + 1].
\* ======================================================================
Min(a, b) == IF a <= b THEN a ELSE b
\* usize::saturating_sub
saturating_sub(a, b) == IF a >= b THEN a - b ELSE 0
\* slice.get(i).cloned(): `none` when i is out of range
Get(v, i, none) == IF i >= 0 /\ i < Len(v) THEN v[i + 1] ELSE none

Key(code, ch, mods) == [code |-> code, ch |-> ch, mods |-> mods]
Plain(code) == Key(code, "", "NONE")

\* Faulty variant: no debounce, a pending fetch runs at once.
debounce_elapsed_always(t, last_selection_change, window) == TRUE

\* last_selection_change.elapsed() >= Duration::from_millis(window)
debounce_elapsed(t, last_selection_change, window) ==
    t - last_selection_change >= window

\* ---- the arms of the key match that move the selection
\* selected_index.saturating_sub(1)
move_up(sel) == saturating_sub(sel, 1)

\* Faulty variant: Down is not stopped at the last entry.
move_down_unguarded(sel, n) == sel + 1

\* if selected_index + 1 < len { selected_index += 1 }
move_down(sel, n) == IF sel + 1 < n THEN sel + 1 ELSE sel

\* Faulty variant: PageUp is one row short of a page.
page_up_short(sel) == saturating_sub(sel, PAGE_SIZE - 1)

\* selected_index.saturating_sub(10)
page_up(sel) == saturating_sub(sel, PAGE_SIZE)

\* (selected_index + 10).min(len.saturating_sub(1))
page_down(sel, n) == Min(sel + PAGE_SIZE, saturating_sub(n, 1))

\* selected_index = len.saturating_sub(1)
jump_end(n) == saturating_sub(n, 1)

\* ---- history: an observer's record of the highlighted item
\* The record after a key event at time t changed the highlighted item; nav
\* says whether the key was a navigation key.  The change continues the burst
\* when it follows the previous change by less than the debounce window.
ObsAfterChange(o, t, window, none, nav) ==
    LET counted == nav /\ watch = "burst"
        continues == o.burst_len >= 1 /\ t - o.stable_since < window
    IN  [stable_since |-> t, fetch_count |-> 0, fetch_item |-> none,
         fetch_at |-> 0,
         burst_len |-> IF ~counted THEN 0
                       ELSE IF continues THEN Min(o.burst_len + 1, MaxBurst)
                       ELSE 1,
         burst_fetches |-> IF counted /\ continues THEN o.burst_fetches ELSE 0,
         ripe |-> FALSE]

\* The record of a key event: the key and the selection, the query and the
\* length of the list it met.
Event(key, sel, query, n) ==
    IF watch = "keys"
    THEN [handled |-> TRUE, key |-> key, selected_index |-> sel,
          query |-> query, len |-> n]
    ELSE NoEvent

\* The record after a detail fetch for item at time t.
ObsAfterFetch(o, item, t) ==
    [o EXCEPT !.fetch_count = @ + 1, !.fetch_item = item, !.fetch_at = t,
              !.burst_fetches = IF o.burst_len >= 1 THEN @ + 1 ELSE @]

\* The record after the loop tested the debounce at time t, the selection
\* having changed last at time changed.
ObsAfterTest(o, t, changed, window) ==
    [o EXCEPT !.ripe = (watch = "burst" /\ o.burst_len >= 1
                        /\ t - changed >= window)]

\* run returns out to the command, which goes on to restore_terminal.  The
\* locals of run end with it, and so does the observer's record.
Return(out) ==
    /\ outcome' = out
    /\ pc' = "disable_raw"
    /\ lv' = <<>>
    /\ bp' = <<>>
    /\ poll_start' = 0
    /\ obs' = NoObs

\* ------------------------------------------------ ui/log_viewer.rs: run
NoDetails == [oid |-> NoOid]

LogKeys ==
    {Plain("Esc"), Plain("Up"), Plain("Down"), Plain("PageUp"),
     Plain("PageDown"), Plain("Home"), Plain("End"), Plain("Enter"),
     Plain("Tab"),
     Key("Char", "q", "NONE"), Key("Char", "c", "CONTROL"),
     Key("Char", "c", "NONE"), Key("Char", "k", "NONE"),
     Key("Char", "j", "NONE"), Key("Char", "g", "NONE"),
     Key("Char", "G", "SHIFT")}

LvInit ==
    [selected_index |-> 0, scroll_offset |-> 0, details |-> NoDetails,
     last_selected_oid |-> NoOid,
     last_selection_change |-> 0, pending_fetch |-> FALSE]

\* let current_oid = log.entries.get(selected_index).map(|e| e.oid)
LvCurrentOid(l) == Get(entries, l.selected_index, NoOid)

\* Faulty variant: a change of the selection does not restart the debounce.
LvSelectionCheck_keep_timer(l, t) ==
    IF LvCurrentOid(l) # l.last_selected_oid
    THEN [l EXCEPT !.last_selected_oid = LvCurrentOid(l),
                   !.pending_fetch = TRUE,
                   !.details = NoDetails]
    ELSE l

\* Faulty variant: a change of the selection keeps the details.
LvSelectionCheck_keep_details(l, t) ==
    IF LvCurrentOid(l) # l.last_selected_oid
    THEN [l EXCEPT !.last_selected_oid = LvCurrentOid(l),
                   !.pending_fetch = TRUE,
                   !.last_selection_change = t]
    ELSE l

\* if current_oid != last_selected_oid { ... }
LvSelectionCheck(l, t) ==
    IF LvCurrentOid(l) # l.last_selected_oid
    THEN [l EXCEPT !.last_selected_oid = LvCurrentOid(l),
                   !.pending_fetch = TRUE,
                   !.last_selection_change = t,
                   !.details = NoDetails]
    ELSE l

\* Faulty variant: the fetch leaves pending_fetch set.
LvAfterFetch_keep_pending(l, got) == [l EXCEPT !.details = got]

\* Faulty variant: a failed fetch is tried again in the next iteration.
LvAfterFetch_retry(l, got) ==
    [l EXCEPT !.pending_fetch = (got = NoDetails), !.details = got]

\* pending_fetch = false; details = get_commit_details(oid).ok()
LvAfterFetch(l, got) == [l EXCEPT !.pending_fetch = FALSE, !.details = got]

\* Faulty variant: Enter checks out the entry below the selected one.
LvCheckoutTarget_next(l) == Get(entries, l.selected_index + 1, NoOid)

\* log.entries.get(selected_index) of the Enter arm
LvCheckoutTarget(l) == Get(entries, l.selected_index, NoOid)

\* The match on (key.code, key.modifiers), arms in the code's order.
LvHandleKey(key, sel, n) ==
    IF key.code = "Esc" \/ (key.code = "Char" /\ key.ch = "q")
       \/ (key.code = "Char" /\ key.ch = "c" /\ key.mods = "CONTROL")
    THEN [kind |-> "Quit", index |-> sel]
    ELSE IF key.code = "Up" \/ (key.code = "Char" /\ key.ch = "k")
    THEN [kind |-> "move", index |-> move_up(sel)]
    ELSE IF key.code = "Down" \/ (key.code = "Char" /\ key.ch = "j")
    THEN [kind |-> "move", index |-> move_down(sel, n)]
    ELSE IF key.code = "PageUp"
    THEN [kind |-> "move", index |-> page_up(sel)]
    ELSE IF key.code = "PageDown"
    THEN [kind |-> "move", index |-> page_down(sel, n)]
    ELSE IF key.code = "Home" \/ (key.code = "Char" /\ key.ch = "g")
    THEN [kind |-> "move", index |-> 0]
    ELSE IF key.code = "End" \/ (key.code = "Char" /\ key.ch = "G")
    THEN [kind |-> "move", index |-> jump_end(n)]
    ELSE IF key.code = "Enter"
            \/ (key.code = "Char" /\ key.ch = "c" /\ key.mods = "NONE")
    THEN [kind |-> "Checkout", index |-> sel]
    ELSE [kind |-> "none", index |-> sel]

\* The item the screen highlights.
LvHighlighted == Get(entries, lv.selected_index, NoOid)

\* log_viewer.rs:29-36
LvCheck ==
    /\ screen = "log" /\ pc = "check"
    /\ lv' = LvSelectionCheck(lv, now)
    /\ ev' = NoEvent
    /\ obs' = [obs EXCEPT !.ripe = FALSE]
    /\ pc' = "fetch"
    /\ UNCHANGED <<dvars, gvars, load, co, watch, screen, now, poll_start, bp, all_branches,
                   outcome, frame, term, exit>>

\* log_viewer.rs:38-43: the fetch runs inline and may fail (.ok() is None)
LvFetch ==
    /\ screen = "log" /\ pc = "fetch"
    /\ IF lv.pending_fetch
          /\ debounce_elapsed(now, lv.last_selection_change, LOG_DEBOUNCE_MS)
       THEN IF LvCurrentOid(lv) # NoOid
            THEN /\ \E got \in {[oid |-> LvCurrentOid(lv)], NoDetails} :
                        lv' = LvAfterFetch(lv, got)
                 /\ obs' = ObsAfterTest(
                               ObsAfterFetch(obs, LvCurrentOid(lv), now),
                               now, lv.last_selection_change, LOG_DEBOUNCE_MS)
            ELSE /\ lv' = LvAfterFetch(lv, lv.details)
                 /\ obs' = ObsAfterTest(obs, now, lv.last_selection_change,
                                        LOG_DEBOUNCE_MS)
       ELSE /\ lv' = lv
            /\ obs' = ObsAfterTest(obs, now, lv.last_selection_change,
                                   LOG_DEBOUNCE_MS)
    /\ pc' = "draw"
    /\ UNCHANGED <<dvars, gvars, load, co, watch, screen, now, poll_start, bp, all_branches,
                   outcome, frame, ev, term, exit>>

\* log_viewer.rs:58: the height of the commit list inside its borders, as
\* the layout gives it for the size the terminal has at this draw.  Where the
\* scrolling is not watched the terminal is tall enough for the whole log.
VisibleHeights ==
    IF watch = "scroll" THEN 0..MaxHeight ELSE {Len(entries) + 1}

\* Faulty variant: the viewport is moved one row short of the selection.
scroll_into_view_short(sel, off, h) ==
    LET a == IF sel >= off + h THEN saturating_sub(sel, h) ELSE off
    IN  IF sel < a THEN sel ELSE a

\* log_viewer.rs:60-65, where visible_height - 1 does not go below zero
scroll_into_view(sel, off, h) ==
    LET a == IF sel >= off + h THEN saturating_sub(sel, h - 1) ELSE off
    IN  IF sel < a THEN sel ELSE a

\* log_viewer.rs:60-65.  With visible_height = 0 and the first test true,
\* visible_height - 1 goes below zero in usize: a build with overflow checks
\* panics, a build without wraps to usize::MAX, and
\* selected_index.saturating_sub(usize::MAX) is 0.
\* wrapped: visible_height - 1 was evaluated below zero and wrapped.
ScrollOutcomes(sel, off, h) ==
    IF h = 0 /\ sel >= off
    THEN {[panic |-> TRUE, wrapped |-> FALSE, offset |-> off],
          [panic |-> FALSE, wrapped |-> TRUE, offset |-> 0]}
    ELSE {[panic |-> FALSE, wrapped |-> FALSE,
           offset |-> scroll_into_view(sel, off, h)]}

\* The process ended by a panic.
ExitPanic == [kind |-> "panic"]

\* log_viewer.rs:45-77: terminal.draw computes the list's height, moves the
\* viewport to the selection, and puts the list with its highlighted row and
\* the details pane on the screen, then event::poll begins; a failed draw
\* ends run with the error, and a panic in the closure ends the process where
\* it stands.
LvDraw ==
    /\ screen = "log" /\ pc = "draw"
    /\ \/ \E h \in VisibleHeights :
          \E o \in ScrollOutcomes(lv.selected_index, lv.scroll_offset, h) :
             IF o.panic
             THEN /\ pc' = "exit"
                  /\ exit' = ExitPanic
                  /\ UNCHANGED <<outcome, lv, bp, obs, frame, poll_start>>
             ELSE /\ lv' = [lv EXCEPT !.scroll_offset = o.offset]
                  /\ frame' = [drawn |-> TRUE,
                               selected_index |-> lv.selected_index,
                               item |-> LvCurrentOid(lv),
                               details |-> lv.details,
                               visible_height |-> h,
                               scroll_offset |-> o.offset,
                               wrapped |-> o.wrapped]
                  /\ pc' = "poll"
                  /\ poll_start' = now
                  /\ UNCHANGED <<outcome, bp, obs, exit>>
       \/ /\ Return([kind |-> "Err"])
          /\ UNCHANGED <<frame, exit>>
    /\ UNCHANGED <<dvars, gvars, load, co, watch, screen, now, all_branches, ev, term>>

\* log_viewer.rs:79-115: a key event arrives within the poll timeout
LvKey ==
    /\ screen = "log" /\ pc = "poll"
    /\ now - poll_start <= POLL_MS
    /\ \E key \in LogKeys :
        LET h == LvHandleKey(key, lv.selected_index, Len(entries)) IN
        /\ ev' = Event(key, lv.selected_index, <<>>, Len(entries))
        /\ IF h.kind = "Quit"
           THEN /\ Return([kind |-> "Quit"])
                /\ UNCHANGED frame
           ELSE IF h.kind = "Checkout" /\ LvCheckoutTarget(lv) # NoOid
           THEN /\ Return([kind |-> "Checkout", oid |-> LvCheckoutTarget(lv)])
                /\ UNCHANGED frame
           ELSE /\ lv' = [lv EXCEPT !.selected_index = h.index]
                /\ obs' = IF Get(entries, h.index, NoOid) # LvHighlighted
                          THEN ObsAfterChange(obs, now, LOG_DEBOUNCE_MS, NoOid,
                                              TRUE)
                          ELSE obs
                /\ frame' = NoFrame
                /\ pc' = "check"
                /\ UNCHANGED <<outcome, bp, poll_start>>
    /\ UNCHANGED <<dvars, gvars, load, co, watch, screen, now, all_branches, term, exit>>

\* Faulty variant: the loop waits for an event without a timeout.
LvNoKey_blocking ==
    /\ screen = "log" /\ pc = "poll"
    /\ now - poll_start < 0
    /\ pc' = "check"
    /\ frame' = NoFrame
    /\ UNCHANGED <<dvars, gvars, load, co, watch, screen, now, poll_start, lv, bp, all_branches,
                   outcome, obs, ev, term, exit>>

\* log_viewer.rs:79-81: the poll times out (first disjunct), or an event
\* arrives that is not a key event (a resize)
LvNoKey ==
    /\ screen = "log" /\ pc = "poll"
    /\ \/ now - poll_start >= POLL_MS
       \/ now - poll_start <= POLL_MS
    /\ pc' = "check"
    /\ frame' = NoFrame
    /\ UNCHANGED <<dvars, gvars, load, co, watch, screen, now, poll_start, lv, bp, all_branches,
                   outcome, obs, ev, term, exit>>

\* log_viewer.rs:79-80: event::poll or event::read fails, run returns the error
LvInputError ==
    /\ screen = "log" /\ pc = "poll"
    /\ now - poll_start <= POLL_MS
    /\ Return([kind |-> "Err"])
    /\ UNCHANGED <<dvars, gvars, load, co, watch, screen, now, all_branches, frame, ev, term,
                   exit>>

\* Time passes.  A poll in progress returns when its timeout is reached.
Tick ==
    /\ pc \in {"check", "fetch", "draw", "poll"}
    /\ now + ClockStep <= MaxTicks * ClockStep
    /\ pc = "poll" => now - poll_start < POLL_MS
    /\ now' = now + ClockStep
    /\ UNCHANGED <<dvars, gvars, load, co, watch, screen, pc, poll_start, lv, bp, all_branches,
                   outcome, obs, frame, ev, term, exit>>

\* -------------------------------------------- ui/branch_picker.rs: run
\* A branch name is a non-empty sequence of characters; the names handed to
\* the picker are distinct (git/branch.rs, get_branches, drops repeats).
BranchPool == << <<"a", "b">>, <<"b", "a">>, <<"b">>, <<"a", "a">> >>
BranchLists ==
    {SubSeq(BranchPool, 1, n) : n \in 0..Min(NumBranches, Len(BranchPool))}

\* SkimMatcherV2::fuzzy_match(choice, pattern), the external matcher: it
\* matches when the pattern is a subsequence of the choice and scores the
\* best alignment.  AlignScores is the set of scores of the alignments of
\* pattern[j..] within choice[i..]: a matched character scores 16, plus 8 at
\* the head of the choice, plus 4 when it follows a matched character; a
\* character skipped after the first match costs 1.
RECURSIVE AlignScores(_, _, _, _, _)
AlignScores(choice, pattern, i, j, prev) ==
    IF j > Len(pattern) THEN {0}
    ELSE IF i > Len(choice) THEN {}
    ELSE {x - (IF j > 1 THEN 1 ELSE 0) :
              x \in AlignScores(choice, pattern, i + 1, j, FALSE)}
         \cup
         (IF choice[i] = pattern[j]
          THEN {x + 16 + (IF i = 1 THEN 8 ELSE 0)
                       + (IF prev /\ j > 1 THEN 4 ELSE 0) :
                    x \in AlignScores(choice, pattern, i + 1, j + 1, TRUE)}
          ELSE {})

MaxOf(S) == CHOOSE x \in S : \A y \in S : x >= y

\* Option<i64>: [some |-> FALSE] is None
fuzzy_match(choice, pattern) ==
    LET scores == AlignScores(choice, pattern, 1, 1, FALSE) IN
    IF scores = {} THEN [some |-> FALSE]
    ELSE [some |-> TRUE, score |-> MaxOf(scores)]

\* Faulty variant: the sort is not stable, x goes before the elements of its
\* own score.
RECURSIVE InsertByScore_unstable(_, _)
InsertByScore_unstable(sorted, x) ==
    IF sorted = <<>> THEN <<x>>
    ELSE IF sorted[1].score > x.score
         THEN <<sorted[1]>> \o InsertByScore_unstable(Tail(sorted), x)
         ELSE <<x>> \o sorted

\* matches.sort_by_key(|(score, _)| Reverse(*score)): a stable sort, so x goes
\* behind every element whose score is not smaller.
RECURSIVE InsertByScore(_, _)
InsertByScore(sorted, x) ==
    IF sorted = <<>> THEN <<x>>
    ELSE IF sorted[1].score >= x.score
         THEN <<sorted[1]>> \o InsertByScore(Tail(sorted), x)
         ELSE <<x>> \o sorted

RECURSIVE SortByScore(_)
SortByScore(matches) ==
    IF matches = <<>> THEN <<>>
    ELSE InsertByScore(SortByScore(SubSeq(matches, 1, Len(matches) - 1)),
                       matches[Len(matches)])

\* branches.iter().filter_map(|b| fuzzy_match(b, query).map(|s| (s, b)))
RECURSIVE Matches(_, _)
Matches(branches, query) ==
    IF branches = <<>> THEN <<>>
    ELSE LET m == fuzzy_match(branches[1], query) IN
         (IF m.some THEN <<[score |-> m.score, b |-> branches[1]]>> ELSE <<>>)
             \o Matches(Tail(branches), query)

filter_branches(branches, query) ==
    IF query = <<>> THEN branches
    ELSE LET sorted == SortByScore(Matches(branches, query)) IN
         [i \in 1..Len(sorted) |-> sorted[i].b]

NoInfo == [name |-> NoName]

\* The keys of the model: a, b and k (with Control) can be typed into the
\* query; unmodified k and j navigate.
PickerKeys ==
    {Plain("Esc"), Plain("Enter"), Plain("Up"), Plain("Down"),
     Plain("PageUp"), Plain("PageDown"), Plain("Home"), Plain("End"),
     Plain("Backspace"), Plain("Tab"),
     Key("Char", "c", "CONTROL"), Key("Char", "k", "NONE"),
     Key("Char", "j", "NONE"), Key("Char", "k", "CONTROL"),
     Key("Char", "a", "NONE"), Key("Char", "b", "NONE")}

BpInit ==
    [query |-> <<>>, selected_index |-> 0, last_selected |-> NoName,
     branch_info |-> NoInfo, info_loading |-> FALSE,
     last_selection_change |-> 0, pending_info_fetch |-> FALSE,
     filtered |-> <<>>]

\* Faulty variant: the clamp does not test for an empty list, so that
\* `filtered.len() - 1` is taken of 0.
BpClamp_no_empty_test(sel, filtered) ==
    IF sel >= Len(filtered) THEN Len(filtered) - 1 ELSE sel

\* if selected_index >= filtered.len() && !filtered.is_empty() { ... }
BpClamp(sel, filtered) ==
    IF sel >= Len(filtered) /\ filtered # <<>> THEN Len(filtered) - 1 ELSE sel

\* Faulty variant: a change of the filtered list counts as a change of the
\* selection.
BpSelectionCheck_on_list(b, t) ==
    LET filtered == filter_branches(all_branches, b.query)
        sel == BpClamp(b.selected_index, filtered)
        current_selected == Get(filtered, sel, NoName)
        b1 == [b EXCEPT !.filtered = filtered, !.selected_index = sel]
    IN  IF current_selected # b.last_selected \/ filtered # b.filtered
        THEN [b1 EXCEPT !.last_selected = current_selected,
                        !.pending_info_fetch = TRUE,
                        !.last_selection_change = t,
                        !.info_loading = TRUE,
                        !.branch_info = NoInfo]
        ELSE b1

\* branch_picker.rs:153-168: filter, clamp, and the selection check
BpSelectionCheck(b, t) ==
    LET filtered == filter_branches(all_branches, b.query)
        sel == BpClamp(b.selected_index, filtered)
        current_selected == Get(filtered, sel, NoName)
        b1 == [b EXCEPT !.filtered = filtered, !.selected_index = sel]
    IN  IF current_selected # b.last_selected
        THEN [b1 EXCEPT !.last_selected = current_selected,
                        !.pending_info_fetch = TRUE,
                        !.last_selection_change = t,
                        !.info_loading = TRUE,
                        !.branch_info = NoInfo]
        ELSE b1

\* pending_info_fetch = false; ...; info_loading = false
BpAfterFetch(b, got) ==
    [b EXCEPT !.pending_info_fetch = FALSE, !.branch_info = got,
              !.info_loading = FALSE]

\* Faulty variant: Backspace removes the first character.
pop_char_first(query) == IF query = <<>> THEN query ELSE Tail(query)

\* String::pop: remove the last character, if any
pop_char(query) ==
    IF query = <<>> THEN query ELSE SubSeq(query, 1, Len(query) - 1)

\* String::push
push_char(query, c) == Append(query, c)

\* filtered.get(selected_index).cloned() of the Enter arm
BpSelection(b) == Get(b.filtered, b.selected_index, NoName)

\* The match on (key.code, key.modifiers), arms in the code's order.
BpHandleKey(key, b) ==
    IF key.code = "Esc"
       \/ (key.code = "Char" /\ key.ch = "c" /\ key.mods = "CONTROL")
    THEN [kind |-> "Cancel", bp |-> b]
    ELSE IF key.code = "Enter"
    THEN [kind |-> "Select", bp |-> b]
    ELSE IF key.code = "Up"
            \/ (key.code = "Char" /\ key.ch = "k" /\ key.mods = "NONE")
    THEN [kind |-> "move",
          bp |-> [b EXCEPT !.selected_index = move_up(@)]]
    ELSE IF key.code = "Down"
            \/ (key.code = "Char" /\ key.ch = "j" /\ key.mods = "NONE")
    THEN [kind |-> "move",
          bp |-> [b EXCEPT !.selected_index = move_down(@, Len(b.filtered))]]
    ELSE IF key.code = "Backspace"
    THEN [kind |-> "edit",
          bp |-> [b EXCEPT !.query = pop_char(@), !.selected_index = 0]]
    ELSE IF key.code = "Char"
    THEN [kind |-> "edit",
          bp |-> [b EXCEPT !.query = push_char(@, key.ch),
                           !.selected_index = 0]]
    ELSE [kind |-> "none", bp |-> b]

\* The item the screen highlights: entry selected_index of the list the
\* query filters to.
BpHighlightedOf(b) ==
    LET filtered == filter_branches(all_branches, b.query) IN
    Get(filtered, BpClamp(b.selected_index, filtered), NoName)
BpHighlighted == BpHighlightedOf(bp)

\* branch_picker.rs:153-168
BpCheck ==
    /\ screen = "picker" /\ pc = "check"
    /\ bp' = BpSelectionCheck(bp, now)
    /\ ev' = NoEvent
    /\ obs' = [obs EXCEPT !.ripe = FALSE]
    /\ pc' = "fetch"
    /\ UNCHANGED <<dvars, gvars, load, co, watch, screen, now, poll_start, lv, all_branches,
                   outcome, frame, term, exit>>

\* branch_picker.rs:171-186: BranchInfo::fetch runs inline; on Err the
\* branch_info is left as it is
BpFetch ==
    /\ screen = "picker" /\ pc = "fetch"
    /\ IF bp.pending_info_fetch
          /\ debounce_elapsed(now, bp.last_selection_change, PICKER_DEBOUNCE_MS)
       THEN IF bp.last_selected # NoName
            THEN /\ \E got \in {[name |-> bp.last_selected], bp.branch_info} :
                        bp' = BpAfterFetch(bp, got)
                 /\ obs' = ObsAfterTest(
                               ObsAfterFetch(obs, bp.last_selected, now),
                               now, bp.last_selection_change,
                               PICKER_DEBOUNCE_MS)
            ELSE /\ bp' = BpAfterFetch(bp, bp.branch_info)
                 /\ obs' = ObsAfterTest(obs, now, bp.last_selection_change,
                                        PICKER_DEBOUNCE_MS)
       ELSE /\ bp' = bp
            /\ obs' = ObsAfterTest(obs, now, bp.last_selection_change,
                                   PICKER_DEBOUNCE_MS)
    /\ pc' = "draw"
    /\ UNCHANGED <<dvars, gvars, load, co, watch, screen, now, poll_start, lv, all_branches,
                   outcome, frame, ev, term, exit>>

\* branch_picker.rs:188-223: terminal.draw puts the query, the filtered list
\* with its highlighted row and the info pane on the screen, then event::poll
\* begins; a failed draw ends run with the error.
BpDraw ==
    /\ screen = "picker" /\ pc = "draw"
    /\ \/ /\ frame' = [drawn |-> TRUE, selected_index |-> bp.selected_index,
                       item |-> Get(bp.filtered, bp.selected_index, NoName),
                       filtered |-> bp.filtered, query |-> bp.query,
                       branch_info |-> bp.branch_info,
                       info_loading |-> bp.info_loading]
          /\ pc' = "poll"
          /\ poll_start' = now
          /\ UNCHANGED <<outcome, lv, bp, obs>>
       \/ /\ Return([kind |-> "Err"])
          /\ UNCHANGED frame
    /\ UNCHANGED <<dvars, gvars, load, co, watch, screen, now, all_branches, ev, term, exit>>

\* branch_picker.rs:225-251: a key event arrives within the poll timeout
BpKey ==
    /\ screen = "picker" /\ pc = "poll"
    /\ now - poll_start <= POLL_MS
    /\ \E key \in PickerKeys :
        LET h == BpHandleKey(key, bp) IN
        /\ Len(h.bp.query) <= MaxQuery
        /\ ev' = Event(key, bp.selected_index, bp.query, Len(bp.filtered))
        /\ IF h.kind = "Cancel"
           THEN /\ Return([kind |-> "Cancel"])
                /\ UNCHANGED frame
           ELSE IF h.kind = "Select"
           THEN /\ Return([kind |-> "Select", branch |-> BpSelection(bp)])
                /\ UNCHANGED frame
           ELSE /\ bp' = h.bp
                /\ obs' = IF BpHighlightedOf(h.bp) # BpHighlighted
                          THEN ObsAfterChange(obs, now, PICKER_DEBOUNCE_MS,
                                              NoName, h.kind = "move")
                          ELSE obs
                /\ frame' = NoFrame
                /\ pc' = "check"
                /\ UNCHANGED <<outcome, lv, poll_start>>
    /\ UNCHANGED <<dvars, gvars, load, co, watch, screen, now, all_branches, term, exit>>

\* branch_picker.rs:225-226: the poll times out (first disjunct), or an
\* event arrives that is not a key event (a resize)
BpNoKey ==
    /\ screen = "picker" /\ pc = "poll"
    /\ \/ now - poll_start >= POLL_MS
       \/ now - poll_start <= POLL_MS
    /\ pc' = "check"
    /\ frame' = NoFrame
    /\ UNCHANGED <<dvars, gvars, load, co, watch, screen, now, poll_start, lv, bp, all_branches,
                   outcome, obs, ev, term, exit>>

\* branch_picker.rs:225-226: event::poll or event::read fails
BpInputError ==
    /\ screen = "picker" /\ pc = "poll"
    /\ now - poll_start <= POLL_MS
    /\ Return([kind |-> "Err"])
    /\ UNCHANGED <<dvars, gvars, load, co, watch, screen, now, all_branches, frame, ev, term,
                   exit>>

\* ------------------------------- commands/log.rs, commands/checkout.rs: run
\* The command's return value: Ok(()) or an error.
ExitOk == [kind |-> "ok"]
ExitErr == [kind |-> "err"]

\* Faulty variant: the screen is started on an empty log too.
LogStart_no_empty_test ==
    /\ screen = "log" /\ pc = "start"
    /\ pc' = "enable_raw" /\ exit' = exit
    /\ UNCHANGED <<dvars, gvars, load, co, watch, screen, now, poll_start, lv, bp, all_branches,
                   outcome, obs, frame, ev, term>>

\* commands/log.rs:25-28: an empty log is reported without starting the screen
LogStart ==
    /\ screen = "log" /\ pc = "start"
    /\ IF entries = <<>>
       THEN pc' = "exit" /\ exit' = ExitOk
       ELSE pc' = "enable_raw" /\ exit' = exit
    /\ UNCHANGED <<dvars, gvars, load, co, watch, screen, now, poll_start, lv, bp, all_branches,
                   outcome, obs, frame, ev, term>>

\* Faulty variant: the error of a failed step is dropped and the command
\* goes on.
TerminalStep_ignore_error(at, t, next) ==
    /\ screen # "none" /\ pc = at
    /\ \/ /\ term' = t
          /\ pc' = next
          /\ exit' = exit
       \/ /\ term' = term
          /\ pc' = next
          /\ exit' = exit
    /\ UNCHANGED <<dvars, gvars, load, co, watch, screen, now, poll_start, lv, bp, all_branches,
                   outcome, obs, frame, ev>>

\* One step of setup_terminal or restore_terminal at position at: it succeeds,
\* the terminal becomes t and the command goes on to next, or it fails, the
\* terminal stays as it is and `?` (with map_err) returns the error.
TerminalStep(at, t, next) ==
    /\ screen # "none" /\ pc = at
    /\ \/ /\ term' = t
          /\ pc' = next
          /\ exit' = exit
       \/ /\ term' = term
          /\ pc' = "exit"
          /\ exit' = ExitErr
    /\ UNCHANGED <<dvars, gvars, load, co, watch, screen, now, poll_start, lv, bp, all_branches,
                   outcome, obs, frame, ev>>

\* terminal.rs:6
EnableRawMode ==
    TerminalStep("enable_raw", [term EXCEPT !.raw = TRUE], "enter_alt")
\* terminal.rs:8
EnterAlternateScreen ==
    TerminalStep("enter_alt", [term EXCEPT !.alt = TRUE], "new_terminal")
\* terminal.rs:9; then log.rs:33 / checkout.rs:71 enter the screen's run
NewTerminal == TerminalStep("new_terminal", term, "check")
\* terminal.rs:13
DisableRawMode ==
    TerminalStep("disable_raw", [term EXCEPT !.raw = FALSE], "leave_alt")
\* terminal.rs:14
LeaveAlternateScreen ==
    TerminalStep("leave_alt", [term EXCEPT !.alt = FALSE], "show_cursor")
\* terminal.rs:15
ShowCursor == TerminalStep("show_cursor", term, "result")

\* log.rs:38-42: checkout_commit(&oid.to_string()); checkout.rs:87-96:
\* checkout_branch(&branch_name).  The command's record of the call.
FollowUp(out) ==
    IF out.kind = "Checkout"
    THEN [phase |-> "checkout", target |-> [kind |-> "Commit", oid |-> out.oid]]
    ELSE [phase |-> "checkout",
          target |-> [kind |-> "Branch", name |-> out.branch]]

\* log.rs:37-46, checkout.rs:77-98: `result?` returns the loop's error; a
\* selection is checked out, which may fail; no selection ends the command.
CommandResult ==
    /\ screen # "none" /\ pc = "result"
    /\ pc' = "exit"
    /\ IF outcome.kind = "Err" THEN exit' = ExitErr /\ co' = co
       ELSE IF outcome.kind = "Checkout"
               \/ (outcome.kind = "Select" /\ outcome.branch # NoName)
       THEN exit' \in {ExitOk, ExitErr} /\ co' = FollowUp(outcome)
       ELSE exit' = ExitOk /\ co' = co
    /\ UNCHANGED <<dvars, gvars, load, watch, screen, now, poll_start, lv, bp, all_branches,
                   outcome, obs, frame, ev, term>>

\* The lengths of the log the history browser is given; the longest has more
\* than a page of entries.
LogLengths == (0..NumCommits) \cup {PAGE_SIZE + 2}

\* commands/log.rs runs on the LogGraph get_log returned; commands/checkout.rs
\* runs the branch picker on the names get_branches returned.  The locals of
\* the screen's run have the values run gives them at entry, and no time
\* passes before it (last_selection_change is the time at entry).
ScreenInit(w, lengths) ==
    /\ watch = w
    /\ lanes = <<>> /\ graph_lines = <<>> /\ row = 1 /\ last = NoRow
    /\ parent_map = <<>> /\ result = NoResult
    /\ load = NoLoad
    /\ co = NoCheckout
    /\ now = 0 /\ poll_start = 0
    /\ outcome = NoOutcome
    /\ frame = NoFrame /\ ev = NoEvent /\ term = TermOff /\ exit = NoExit
    /\ NoDialog
    /\ \/ /\ screen = "log"
          /\ pc = "start"
          /\ \E n \in lengths : entries = [i \in 1..n |-> i]
          /\ all_branches = <<>>
          /\ lv = LvInit
          /\ bp = <<>>
          /\ obs = [NoObs EXCEPT !.fetch_item = NoOid]
       \/ /\ screen = "picker"
          /\ pc = "enable_raw"
          /\ entries = <<>>
          /\ all_branches \in BranchLists
          /\ lv = <<>>
          /\ bp = BpInit
          /\ obs = [NoObs EXCEPT !.fetch_item = NoName]

ScreenNext ==
    \/ LogStart
    \/ EnableRawMode \/ EnterAlternateScreen \/ NewTerminal
    \/ LvCheck \/ LvFetch \/ LvDraw \/ LvKey \/ LvNoKey \/ LvInputError
    \/ BpCheck \/ BpFetch \/ BpDraw \/ BpKey \/ BpNoKey \/ BpInputError
    \/ Tick
    \/ DisableRawMode \/ LeaveAlternateScreen \/ ShowCursor \/ CommandResult

\* The commands with the history of the detail fetches,
SpecScreen == ScreenInit("fetch", 0..NumCommits) /\ [][ScreenNext]_vars
\* with the history of the key events,
SpecKeys == ScreenInit("keys", LogLengths) /\ [][ScreenNext]_vars
\* and with the history of the bursts.
SpecBurst == ScreenInit("burst", 0..NumCommits) /\ [][ScreenNext]_vars

\* ======================================================================
\* The branch matcher: fuzzy_match_branch (commands/checkout.rs:101-117) and
\* filter_branches (ui/branch_picker.rs:13-26), over any scorer.
\* A candidate is a branch name as the two functions see it for the query at
\* hand: exact is branch.eq_ignore_ascii_case(query), m is what
\* SkimMatcherV2::fuzzy_match(branch, query) returns, None or a score.  The
\* names of a list are distinct (git/branch.rs:24), so a candidate is named
\* by its position in the list; NoBranch is Option::None.
\* ======================================================================
NoBranch == 0
Scores == (0 - 1)..MaxScore
Candidates ==
    [exact : BOOLEAN,
     m : {[some |-> FALSE]} \cup [some : {TRUE}, score : Scores]]

\* i64::MAX, the score of an exact match: it is above every score of the
\* scorer.
EXACT_SCORE == MaxScore + 1

\* Faulty variant: no priority for an exact match.
RECURSIVE ScoredBranches_no_exact(_, _)
ScoredBranches_no_exact(cands, i) ==
    IF i > Len(cands) THEN <<>>
    ELSE (IF cands[i].m.some
          THEN <<[score |-> cands[i].m.score, b |-> i]>>
          ELSE <<>>) \o ScoredBranches_no_exact(cands, i + 1)

\* checkout.rs:104-114, the filter_map of fuzzy_match_branch from the i-th
\* candidate on: (i64::MAX, branch) for an exact match, else (score, branch)
\* if the scorer matches, else nothing.
RECURSIVE ScoredBranches(_, _)
ScoredBranches(cands, i) ==
    IF i > Len(cands) THEN <<>>
    ELSE (IF cands[i].exact
          THEN <<[score |-> EXACT_SCORE, b |-> i]>>
          ELSE IF cands[i].m.some
          THEN <<[score |-> cands[i].m.score, b |-> i]>>
          ELSE <<>>) \o ScoredBranches(cands, i + 1)

\* Faulty variant: of equal scores the earlier element is kept.
RECURSIVE max_by_key_first(_)
max_by_key_first(pairs) ==
    IF Len(pairs) = 1 THEN pairs[1]
    ELSE LET x == max_by_key_first(SubSeq(pairs, 1, Len(pairs) - 1))
             y == pairs[Len(pairs)]
         IN  IF x.score >= y.score THEN x ELSE y

\* Iterator::max_by_key on a non-empty sequence: a fold that keeps the
\* element found so far only if its key is greater than the next one's, so of
\* equal keys the last element is returned.
RECURSIVE max_by_key(_)
max_by_key(pairs) ==
    IF Len(pairs) = 1 THEN pairs[1]
    ELSE LET x == max_by_key(SubSeq(pairs, 1, Len(pairs) - 1))
             y == pairs[Len(pairs)]
         IN  IF x.score > y.score THEN x ELSE y

\* checkout.rs:101-117
fuzzy_match_branch(cands) ==
    LET pairs == ScoredBranches(cands, 1) IN
    IF pairs = <<>> THEN NoBranch ELSE max_by_key(pairs).b

\* branch_picker.rs:19-22, the filter_map of filter_branches from the i-th
\* candidate on
RECURSIVE MatchesScored(_, _)
MatchesScored(cands, i) ==
    IF i > Len(cands) THEN <<>>
    ELSE (IF cands[i].m.some
          THEN <<[score |-> cands[i].m.score, b |-> i]>>
          ELSE <<>>) \o MatchesScored(cands, i + 1)

\* branch_picker.rs:13-26, filter_branches for candidates already scored
filter_branches_scored(cands, query_is_empty) ==
    IF query_is_empty THEN [i \in 1..Len(cands) |-> i]
    ELSE LET sorted == SortByScore(MatchesScored(cands, 1)) IN
         [i \in 1..Len(sorted) |-> sorted[i].b]

\* The inputs: a list of candidates and whether the query is empty (no name
\* equals the empty query).
MatchInit ==
    /\ entries = <<>>
    /\ parent_map = <<>>
    /\ lanes = <<>>
    /\ graph_lines = <<>>
    /\ row = 1
    /\ last = NoRow
    /\ result = NoResult
    /\ NoScreen
    /\ load = NoLoad
    /\ \E cands \in SeqsUpTo(Candidates, NumBranches), e \in BOOLEAN :
        /\ e => \A i \in 1..Len(cands) : ~cands[i].exact
        /\ co = [phase |-> "match", cands |-> cands, query_is_empty |-> e,
                 looked |-> FALSE, best |-> NoBranch,
                 narrowed |-> FALSE, filtered |-> <<>>]

\* The direct lookup is applied.
Lookup ==
    /\ co.phase = "match" /\ ~co.looked
    /\ co' = [co EXCEPT !.looked = TRUE, !.best = fuzzy_match_branch(co.cands)]
    /\ UNCHANGED <<dvars, gvars, uvars, load>>

\* The picker's filter is applied.
Narrow ==
    /\ co.phase = "match" /\ ~co.narrowed
    /\ co' = [co EXCEPT !.narrowed = TRUE,
                  !.filtered = filter_branches_scored(co.cands,
                                                      co.query_is_empty)]
    /\ UNCHANGED <<dvars, gvars, uvars, load>>

MatchNext == Lookup \/ Narrow

SpecMatch == MatchInit /\ [][MatchNext]_vars

\* ---------------------------------------------- claims about the matcher
\* The candidates that equal the query case-insensitively, and those the
\* scorer matches.
ExactOnes == {i \in 1..Len(co.cands) : co.cands[i].exact}
Matched == {i \in 1..Len(co.cands) : co.cands[i].m.some}

\* C22 as stated: when some candidate equals the query case-insensitively,
\* the direct lookup returns such a candidate and such a candidate is first
\* in the picker's filtered list, whatever the scores.
C22_ExactOutranksFuzzy ==
    (co.phase = "match" /\ ExactOnes # {}) =>
        /\ co.looked => co.best \in ExactOnes
        /\ co.narrowed =>
              (co.filtered # <<>> /\ co.filtered[1] \in ExactOnes)

\* C22, amended: when some candidate equals the query case-insensitively, the
\* direct lookup returns such a candidate, whatever the scores; the picker's
\* filtered list is ordered by the scores alone (C26).
C22_ExactOutranksInLookup ==
    (co.phase = "match" /\ ExactOnes # {} /\ co.looked) =>
        co.best \in ExactOnes

\* The lookup returned an exact candidate the scorer does not match although
\* it gives another candidate its highest score.
C22_Witness ==
    /\ co.phase = "match" /\ co.looked
    /\ co.best \in ExactOnes
    /\ ~co.cands[co.best].m.some
    /\ \E i \in Matched \ ExactOnes : co.cands[i].m.score = MaxScore

\* The score filter_branches sorts candidate i by.
ScoreOf(i) == co.cands[i].m.score
\* Before(f, i, j): i comes before j in the sequence f.
Before(f, i, j) ==
    \E a, b \in 1..Len(f) : a < b /\ f[a] = i /\ f[b] = j

\* C26: for a non-empty query filter_branches returns exactly the candidates
\* the scorer matches, each once, by descending score, candidates of equal
\* score in their input order; for an empty query it returns all candidates in
\* input order.
C26_FilterOrder ==
    (co.phase = "match" /\ co.narrowed) =>
        IF co.query_is_empty
        THEN co.filtered = [i \in 1..Len(co.cands) |-> i]
        ELSE /\ {co.filtered[a] : a \in 1..Len(co.filtered)} = Matched
             /\ Len(co.filtered) = Cardinality(Matched)
             /\ \A i, j \in Matched :
                   (ScoreOf(i) > ScoreOf(j)
                       \/ (ScoreOf(i) = ScoreOf(j) /\ i < j)) =>
                   Before(co.filtered, i, j)

\* The last candidate has the highest score and the two before it tie.
C26_Witness ==
    /\ co.phase = "match" /\ co.narrowed /\ ~co.query_is_empty
    /\ Len(co.cands) = 3
    /\ Matched = {1, 2, 3}
    /\ ScoreOf(1) = ScoreOf(2) /\ ScoreOf(2) < ScoreOf(3)
    /\ co.filtered = <<3, 1, 2>>

\* A candidate the scorer does not match is left out.
C26_ExcludedWitness ==
    /\ co.phase = "match" /\ co.narrowed /\ ~co.query_is_empty
    /\ Len(co.cands) = 3
    /\ Matched = {1, 3}
    /\ co.filtered = <<3, 1>>

\* An empty query keeps candidates the scorer would not match.
C26_EmptyQueryWitness ==
    /\ co.phase = "match" /\ co.narrowed /\ co.query_is_empty
    /\ Len(co.cands) = 2
    /\ Matched = {2}
    /\ co.filtered = <<1, 2>>

\* The candidates fuzzy_match_branch can return, and the score it ranks
\* candidate i by.
Eligible == ExactOnes \cup Matched
KeyOf(i) == IF co.cands[i].exact THEN EXACT_SCORE ELSE co.cands[i].m.score
Best == {i \in Eligible : \A j \in Eligible : KeyOf(j) <= KeyOf(i)}

\* C27 as stated: fuzzy_match_branch returns a candidate of maximal score, the
\* first of them in the input list when several tie, and no candidate exactly
\* when none matches.
C27_LookupFirstOfBest ==
    (co.phase = "match" /\ co.looked) =>
        /\ co.best = NoBranch <=> Eligible = {}
        /\ Eligible # {} =>
              /\ co.best \in Best
              /\ \A i \in Best : co.best <= i

\* C27, amended: fuzzy_match_branch returns a candidate of maximal score, the
\* last of them in the input list when several tie, and no candidate exactly
\* when none matches.
C27_LookupLastOfBest ==
    (co.phase = "match" /\ co.looked) =>
        /\ co.best = NoBranch <=> Eligible = {}
        /\ Eligible # {} =>
              /\ co.best \in Best
              /\ \A i \in Best : co.best >= i

\* Two fuzzy matches tie for the highest score, ahead of a third; the second
\* of the two is returned.
C27_Witness ==
    /\ co.phase = "match" /\ co.looked
    /\ Len(co.cands) = 3
    /\ ExactOnes = {}
    /\ Best = {1, 2}
    /\ 3 \in Matched
    /\ co.best = 2

\* Two exact matches: the later one is returned.
C27_ExactTieWitness ==
    /\ co.phase = "match" /\ co.looked
    /\ Len(co.cands) = 3
    /\ ExactOnes = {1, 3}
    /\ co.best = 3

\* No candidate matches, none is returned.
C27_NoneWitness ==
    /\ co.phase = "match" /\ co.looked
    /\ Len(co.cands) = 3
    /\ Eligible = {}
    /\ co.best = NoBranch

\* ======================================================================
\* `gx checkout <query>`: commands/checkout.rs, run, lines 39-66.
\* co.known and co.reloaded are what get_branches returns before and after
\* the refresh, co.commit_ok[a + 1] what is_valid_commit_ref(query) returns in
\* attempt a.  co.branches, co.attempt and co.result are run's locals;
\* co.fetches counts the executions of fetch and co.searches records every
\* search: the names it went over, the refreshes before it, what it found.
\* ======================================================================
NoTarget == [kind |-> "None"]
\* for attempt in 0..2
ATTEMPTS == 2

CheckoutInit ==
    /\ entries = <<>>
    /\ parent_map = <<>>
    /\ lanes = <<>>
    /\ graph_lines = <<>>
    /\ row = 1
    /\ last = NoRow
    /\ result = NoResult
    /\ NoScreen
    /\ load = NoLoad
    /\ \E known \in SeqsUpTo(Candidates, 1),
          reloaded \in SeqsUpTo(Candidates, 2),
          commit_ok \in [1..ATTEMPTS -> BOOLEAN] :
        co = [phase |-> "get_branches", known |-> known,
              reloaded |-> reloaded, commit_ok |-> commit_ok,
              branches |-> <<>>, attempt |-> 0, result |-> NoTarget,
              fetches |-> 0, searches |-> <<>>, outcome |-> "running"]

\* checkout.rs:39: get_branches()?
CoGetBranches ==
    /\ co.phase = "get_branches"
    /\ \/ co' = [co EXCEPT !.phase = "search", !.branches = co.known]
       \/ co' = [co EXCEPT !.phase = "returned", !.outcome = "GitError"]
    /\ UNCHANGED <<dvars, gvars, uvars, load>>

\* Faulty variant: the query is tried as a commit reference first.
search_commit_first(branches, commit_ok) ==
    LET b == fuzzy_match_branch(branches) IN
    IF commit_ok THEN [kind |-> "Commit"]
    ELSE IF b # NoBranch THEN [kind |-> "Branch", b |-> b]
    ELSE NoTarget

\* checkout.rs:47-53: the search of one attempt, the branches first, then
\* the query as a commit reference
search(branches, commit_ok) ==
    LET b == fuzzy_match_branch(branches) IN
    IF b # NoBranch THEN [kind |-> "Branch", b |-> b]
    ELSE IF commit_ok THEN [kind |-> "Commit"]
    ELSE NoTarget

\* Faulty variant: every attempt that found nothing refreshes.
should_refresh_always(attempt) == TRUE

\* checkout.rs:59: if attempt == 0
should_refresh(attempt) == attempt = 0

\* checkout.rs:46-59, one iteration of the loop up to the refresh: the
\* search, `break` if it found a target; if not, the refresh in the first
\* attempt, the next iteration otherwise.
CoSearch ==
    /\ co.phase = "search"
    /\ co.attempt < ATTEMPTS
    /\ LET r == search(co.branches, co.commit_ok[co.attempt + 1])
           seen == Append(co.searches,
                          [over |-> co.branches, fetches |-> co.fetches,
                           found |-> r # NoTarget])
       IN  IF r # NoTarget
           THEN co' = [co EXCEPT !.result = r, !.searches = seen,
                           !.phase = "report"]
           ELSE IF should_refresh(co.attempt)
           THEN co' = [co EXCEPT !.searches = seen, !.phase = "fetch"]
           ELSE co' = [co EXCEPT !.searches = seen, !.attempt = @ + 1]
    /\ UNCHANGED <<dvars, gvars, uvars, load>>

\* checkout.rs:46: the range of the loop is used up
CoLoopEnd ==
    /\ co.phase = "search"
    /\ co.attempt >= ATTEMPTS
    /\ co' = [co EXCEPT !.phase = "report"]
    /\ UNCHANGED <<dvars, gvars, uvars, load>>

\* checkout.rs:60: fetch::fetch()?
CoFetch ==
    /\ co.phase = "fetch"
    /\ \/ co' = [co EXCEPT !.fetches = @ + 1, !.phase = "reload"]
       \/ co' = [co EXCEPT !.fetches = @ + 1, !.phase = "returned",
                      !.outcome = "GitError"]
    /\ UNCHANGED <<dvars, gvars, uvars, load>>

\* checkout.rs:61-62: branches = get_branches()?, then the next iteration
CoReload ==
    /\ co.phase = "reload"
    /\ \/ co' = [co EXCEPT !.branches = co.reloaded, !.attempt = @ + 1,
                      !.phase = "search"]
       \/ co' = [co EXCEPT !.phase = "returned", !.outcome = "GitError"]
    /\ UNCHANGED <<dvars, gvars, uvars, load>>

\* checkout.rs:65: result.ok_or(NoMatch)?; with a target run goes on to the
\* checkout itself (lines 87-96).
CoReport ==
    /\ co.phase = "report"
    /\ IF co.result = NoTarget
       THEN co' = [co EXCEPT !.phase = "returned", !.outcome = "NoMatch"]
       ELSE co' = [co EXCEPT !.phase = "returned", !.outcome = "Target"]
    /\ UNCHANGED <<dvars, gvars, uvars, load>>

CheckoutNext ==
    \/ CoGetBranches \/ CoSearch \/ CoLoopEnd \/ CoFetch \/ CoReload
    \/ CoReport

SpecCheckout == CheckoutInit /\ [][CheckoutNext]_vars

\* ------------------------------------ claims about `gx checkout <query>`
InCheckout == co.phase \notin {"none", "match", "checkout"}

\* C23: the refresh is executed at most once, and only after a first search,
\* over the names known before it, that found nothing; NoMatch is reported
\* only after that search, the one refresh and a second search, over the
\* reloaded names, that found nothing either.
C23_RefreshOnceThenRetry ==
    InCheckout =>
        /\ co.fetches <= 1
        /\ co.fetches = 1 =>
              /\ Len(co.searches) >= 1
              /\ co.searches[1] =
                    [over |-> co.known, fetches |-> 0, found |-> FALSE]
        /\ co.outcome = "NoMatch" =>
              /\ co.fetches = 1
              /\ Len(co.searches) = 2
              /\ co.searches[2] =
                    [over |-> co.reloaded, fetches |-> 1, found |-> FALSE]

\* NoMatch after two searches over different, non-empty lists of names.
C23_Witness ==
    /\ InCheckout
    /\ co.outcome = "NoMatch"
    /\ co.known # <<>>
    /\ Len(co.reloaded) = 2
    /\ co.fetches = 1

\* The second search found a branch the refresh brought.
C23_FoundAfterRefreshWitness ==
    /\ InCheckout
    /\ co.outcome = "Target"
    /\ co.fetches = 1
    /\ Len(co.searches) = 2
    /\ co.result = [kind |-> "Branch", b |-> 2]

\* The first search found a target: no refresh.
C23_NoRefreshWitness ==
    /\ InCheckout
    /\ co.outcome = "Target"
    /\ co.fetches = 0
    /\ co.result.kind = "Commit"

\* ------------------------------------------- claims about the detail fetch
\* The debounce window and the highlighted item of the running screen.
DebounceWindow ==
    IF screen = "log" THEN LOG_DEBOUNCE_MS ELSE PICKER_DEBOUNCE_MS
Highlighted == IF screen = "log" THEN LvHighlighted ELSE BpHighlighted
NoItem == IF screen = "log" THEN NoOid ELSE NoName

\* C9: a detail fetch is performed only for the item that is highlighted and
\* has been highlighted without a change for at least the debounce window
\* (100 ms in the history browser, 150 ms in the branch picker).
C9_FetchOnlyAfterQuiet ==
    (screen # "none" /\ obs.fetch_count >= 1) =>
        /\ Highlighted # NoItem
        /\ obs.fetch_item = Highlighted
        /\ obs.fetch_at - obs.stable_since >= DebounceWindow

C9_Witness ==
    /\ screen = "log"
    /\ obs.fetch_count = 1
    /\ obs.stable_since > 0
    /\ obs.fetch_item = LvHighlighted
    /\ lv.selected_index > 0

\* The same case in the branch picker.
C9_PickerWitness ==
    /\ screen = "picker"
    /\ obs.fetch_count = 1
    /\ obs.stable_since > 0
    /\ obs.fetch_item = BpHighlighted
    /\ bp.query # <<>>

\* C10: at most one detail fetch is executed in a period during which the
\* highlighted item does not change, and none while that period is shorter
\* than the debounce window.
C10_OneFetchPerStableSelection ==
    screen # "none" =>
        /\ obs.fetch_count <= 1
        /\ now - obs.stable_since < DebounceWindow => obs.fetch_count = 0

C10_Witness ==
    /\ screen = "picker"
    /\ obs.fetch_count = 1
    /\ obs.stable_since > 0
    /\ now - obs.stable_since >= PICKER_DEBOUNCE_MS + POLL_MS + POLL_MS
    /\ pc = "fetch"
    /\ ~bp.pending_info_fetch

\* The same case in the history browser.
C10_LogWitness ==
    /\ screen = "log"
    /\ obs.fetch_count = 1
    /\ obs.stable_since > 0
    /\ now - obs.stable_since >= LOG_DEBOUNCE_MS + POLL_MS + POLL_MS
    /\ pc = "fetch"
    /\ ~lv.pending_fetch

\* ------------------------------------------------ claims about bursts
\* The screen's loop runs.
InLoop == pc \in {"check", "fetch", "draw", "poll"}

\* C11: a burst of navigation events that change the highlighted item, each
\* less than the debounce window after the one before, yields exactly one
\* detail fetch from its first event on.  Never more than one, and that one
\* after the last event and for the item highlighted last; and with no
\* further input the fetch is made: as soon as the loop has tested the
\* debounce with the window elapsed.
C11_BurstFetchesOnce ==
    (InLoop /\ obs.burst_len >= 1) =>
        /\ obs.burst_fetches <= 1
        /\ obs.burst_fetches = 1 =>
              /\ obs.fetch_count = 1
              /\ obs.fetch_item = Highlighted
              /\ Highlighted # NoItem
        /\ obs.ripe => obs.burst_fetches = 1

C11_Witness ==
    /\ screen = "log" /\ InLoop
    /\ obs.burst_len = MaxBurst
    /\ obs.burst_fetches = 1
    /\ obs.fetch_item = LvHighlighted
    /\ obs.ripe

\* ------------------------------------------------ claims about the frames
\* C12: a drawn frame of the history browser shows no details or the details
\* fetched for the commit it highlights, and a drawn frame of the branch
\* picker shows "Loading...", no info or the info fetched for the branch it
\* highlights; and as long as no fetch was made since the highlighted item
\* changed, the frame shows no detail at all (the cached one was discarded).
C12_FrameShowsOwnDetail ==
    (InLoop /\ frame.drawn) =>
        IF screen = "log"
        THEN /\ frame.details # NoDetails => frame.details.oid = frame.item
             /\ obs.fetch_count = 0 => frame.details = NoDetails
        ELSE /\ (~frame.info_loading /\ frame.branch_info # NoInfo) =>
                    frame.branch_info.name = frame.item
             /\ obs.fetch_count = 0 => frame.branch_info = NoInfo
             /\ frame.info_loading => frame.branch_info = NoInfo

\* A frame drawn after the highlighted commit changed, before its details
\* were fetched, late enough for the details of the commit highlighted
\* before to have been fetched.
C12_Witness ==
    /\ screen = "log" /\ InLoop /\ frame.drawn
    /\ frame.item # 1
    /\ frame.details = NoDetails
    /\ obs.stable_since >= LOG_DEBOUNCE_MS + POLL_MS
    /\ obs.fetch_count = 0

\* A frame that shows the info fetched for a branch highlighted later.
C12_InfoWitness ==
    /\ screen = "picker" /\ InLoop /\ frame.drawn
    /\ frame.selected_index > 0
    /\ frame.branch_info # NoInfo
    /\ ~frame.info_loading

\* ----------------------------------------------- claims about the selection
\* C13: in every frame the branch picker draws, and whenever it handles
\* Enter, selected_index is an index of the filtered list (and the row drawn
\* as highlighted, or returned, is that entry) or the list is empty; with an
\* empty list selected_index has not underflowed, no row is highlighted, no
\* info was fetched, and Enter returns no selection.
C13_PickerIndexValid ==
    (screen = "picker" /\ frame.drawn) =>
        /\ frame.selected_index \in Nat
        /\ frame.filtered # <<>> =>
              /\ frame.selected_index < Len(frame.filtered)
              /\ frame.item = frame.filtered[frame.selected_index + 1]
              /\ outcome.kind = "Select" => outcome.branch = frame.item
        /\ frame.filtered = <<>> =>
              /\ frame.item = NoName
              /\ InLoop => obs.fetch_count = 0 /\ frame.branch_info = NoInfo
              /\ outcome.kind = "Select" => outcome.branch = NoName

\* Enter is handled after the query filtered the list to nothing.
C13_Witness ==
    /\ screen = "picker" /\ frame.drawn
    /\ all_branches # <<>>
    /\ frame.filtered = <<>>
    /\ outcome.kind = "Select"

\* A frame drawn after Down moved the selection and the query then shrank the
\* list.
C13_ShrinkWitness ==
    /\ screen = "picker" /\ frame.drawn /\ InLoop
    /\ Len(frame.filtered) = 1
    /\ Len(all_branches) >= 3
    /\ frame.query # <<>>

\* C14: while the history browser runs, the log is not empty and
\* 0 <= selected_index < entry_count.
C14_LogIndexInRange ==
    (screen = "log" /\ InLoop) =>
        /\ entries # <<>>
        /\ lv.selected_index \in 0..(Len(entries) - 1)

\* PageDown was stopped at the last entry.
C14_Witness ==
    /\ screen = "log" /\ pc = "check"
    /\ ev.handled /\ ev.key.code = "PageDown"
    /\ ev.selected_index + PAGE_SIZE > Len(entries) - 1
    /\ ev.selected_index < Len(entries) - 1
    /\ lv.selected_index = Len(entries) - 1

\* The key is a character key that the branch picker does not bind to a
\* command: every one but unmodified k and j, and c with Control.
TypedKey(key) ==
    /\ key.code = "Char"
    /\ ~(key.ch \in {"k", "j"} /\ key.mods = "NONE")
    /\ ~(key.ch = "c" /\ key.mods = "CONTROL")

\* C15 as stated: every character key press appends the character to the
\* query and resets the selection to index 0, and Backspace removes the last
\* character of the query.
C15_EveryCharAppends ==
    (screen = "picker" /\ ev.handled) =>
        /\ ev.key.code = "Char" =>
              /\ pc = "check"
              /\ bp.query = Append(ev.query, ev.key.ch)
              /\ bp.selected_index = 0
        /\ (ev.key.code = "Backspace" /\ ev.query # <<>>) =>
              /\ pc = "check"
              /\ bp.query = SubSeq(ev.query, 1, Len(ev.query) - 1)

\* C15, amended: every character key press other than unmodified k and j
\* (which move the selection) and c with Control (which cancels) appends the
\* character to the query and resets the selection to index 0; Backspace
\* removes the last character of the query, if any, and resets the selection
\* to index 0.
C15_TypedCharAppends ==
    (screen = "picker" /\ ev.handled) =>
        /\ TypedKey(ev.key) =>
              /\ pc = "check"
              /\ bp.query = Append(ev.query, ev.key.ch)
              /\ bp.selected_index = 0
        /\ (ev.key.code = "Char" /\ ev.key.ch \in {"k", "j"}
                /\ ev.key.mods = "NONE") =>
              /\ pc = "check"
              /\ bp.query = ev.query
        /\ (ev.key.code = "Char" /\ ev.key.ch = "c"
                /\ ev.key.mods = "CONTROL") =>
              /\ ~InLoop
              /\ outcome.kind = "Cancel"
        /\ ev.key.code = "Backspace" =>
              /\ pc = "check"
              /\ bp.selected_index = 0
              /\ Len(bp.query) = Max(Len(ev.query) - 1, 0)
              /\ \A i \in 1..Len(bp.query) : bp.query[i] = ev.query[i]

\* k with Control was appended when the selection was not at the top.
C15_Witness ==
    /\ screen = "picker" /\ pc = "check" /\ ev.handled
    /\ TypedKey(ev.key)
    /\ ev.key.ch = "k"
    /\ ev.selected_index > 0
    /\ bp.selected_index = 0
    /\ bp.query = Append(ev.query, "k")

\* Backspace took the second of two different characters.
C15_BackspaceWitness ==
    /\ screen = "picker" /\ pc = "check" /\ ev.handled
    /\ ev.key.code = "Backspace"
    /\ Len(ev.query) = 2
    /\ ev.query[1] # ev.query[2]
    /\ bp.query = <<ev.query[1]>>

\* x clamped to [0, n - 1], for a list of n >= 1 entries.
Clamped(x, n) == IF x < 0 THEN 0 ELSE IF x > n - 1 THEN n - 1 ELSE x

\* The selection is the screen's selected_index.
SelectedIndex ==
    IF screen = "log" THEN lv.selected_index ELSE bp.selected_index

UpKey(key) ==
    key.code = "Up" \/ (key.code = "Char" /\ key.ch = "k" /\ key.mods = "NONE")
DownKey(key) ==
    key.code = "Down" \/ (key.code = "Char" /\ key.ch = "j" /\ key.mods = "NONE")
JumpKey(key) == key.code \in {"PageUp", "PageDown", "Home", "End"}

\* Where the key should take a selection at index i of n entries.
NavTarget(key, i, n) ==
    IF UpKey(key) THEN Clamped(i - 1, n)
    ELSE IF DownKey(key) THEN Clamped(i + 1, n)
    ELSE IF key.code = "PageUp" THEN Clamped(i - PAGE_SIZE, n)
    ELSE IF key.code = "PageDown" THEN Clamped(i + PAGE_SIZE, n)
    ELSE IF key.code = "Home" THEN 0
    ELSE n - 1

\* C16 as stated: in the history browser and in the branch picker alike,
\* Up/k and Down/j move the selection by one, PageUp/PageDown by a page of 10
\* and Home/End to the first/last entry, clamped to [0, len - 1].
C16_NavigationBothScreens ==
    (screen # "none" /\ pc = "check" /\ ev.handled /\ ev.len >= 1
        /\ (UpKey(ev.key) \/ DownKey(ev.key) \/ JumpKey(ev.key))) =>
        SelectedIndex = NavTarget(ev.key, ev.selected_index, ev.len)

\* C16, amended: in the history browser and in the branch picker, Up/k and
\* Down/j move the selection by exactly one, clamped to [0, len - 1]; in the
\* history browser PageUp/PageDown jump by 10 entries and Home/End to the
\* first/last entry, clamped the same way; the branch picker ignores
\* PageUp, PageDown, Home and End.
C16_Navigation ==
    (screen # "none" /\ pc = "check" /\ ev.handled /\ ev.len >= 1) =>
        /\ (UpKey(ev.key) \/ DownKey(ev.key)) =>
              SelectedIndex = NavTarget(ev.key, ev.selected_index, ev.len)
        /\ (JumpKey(ev.key) /\ screen = "log") =>
              SelectedIndex = NavTarget(ev.key, ev.selected_index, ev.len)
        /\ (JumpKey(ev.key) /\ screen = "picker") =>
              /\ SelectedIndex = ev.selected_index
              /\ bp.query = ev.query

\* PageUp jumped a full page, without being stopped at the first entry.
C16_Witness ==
    /\ screen = "log" /\ pc = "check" /\ ev.handled
    /\ ev.key.code = "PageUp"
    /\ ev.selected_index > PAGE_SIZE
    /\ lv.selected_index = ev.selected_index - PAGE_SIZE

\* Down moved the picker's selection by one.
C16_PickerWitness ==
    /\ screen = "picker" /\ pc = "check" /\ ev.handled
    /\ DownKey(ev.key)
    /\ bp.selected_index = ev.selected_index + 1
    /\ bp.query # <<>>

\* ------------------------------------------------- claims about the exits
LogQuitKey(key) ==
    \/ key.code = "Esc"
    \/ key.code = "Char" /\ key.ch = "q"
    \/ key.code = "Char" /\ key.ch = "c" /\ key.mods = "CONTROL"
LogCheckoutKey(key) ==
    \/ key.code = "Enter"
    \/ key.code = "Char" /\ key.ch = "c" /\ key.mods = "NONE"
PickerCancelKey(key) ==
    \/ key.code = "Esc"
    \/ key.code = "Char" /\ key.ch = "c" /\ key.mods = "CONTROL"

\* C17: when the history browser's loop has returned without an error, it
\* returned Checkout(id) on Enter or plain c, id being the commit highlighted
\* in the frame drawn last, or Quit on Esc, q or Ctrl-C; when the branch
\* picker's loop has returned without an error, it returned on Enter the
\* branch highlighted in the frame drawn last (none if no row was), or no
\* result on Esc or Ctrl-C.  Each of these keys ends the loop.
C17_NormalExits ==
    /\ (screen = "log" /\ ~InLoop /\ outcome.kind \notin {"running", "Err"}) =>
          /\ ev.handled /\ frame.drawn
          /\ \/ /\ outcome.kind = "Checkout"
                /\ LogCheckoutKey(ev.key)
                /\ outcome.oid = frame.item
                /\ outcome.oid = entries[frame.selected_index + 1]
             \/ /\ outcome.kind = "Quit"
                /\ LogQuitKey(ev.key)
    /\ (screen = "picker" /\ ~InLoop /\ outcome.kind \notin {"running", "Err"}) =>
          /\ ev.handled /\ frame.drawn
          /\ \/ /\ outcome.kind = "Select"
                /\ ev.key.code = "Enter"
                /\ outcome.branch = frame.item
                /\ outcome.branch =
                      Get(frame.filtered, frame.selected_index, NoName)
             \/ /\ outcome.kind = "Cancel"
                /\ PickerCancelKey(ev.key)
    /\ (screen = "log" /\ ev.handled
            /\ (LogQuitKey(ev.key) \/ LogCheckoutKey(ev.key))) => ~InLoop
    /\ (screen = "picker" /\ ev.handled
            /\ (PickerCancelKey(ev.key) \/ ev.key.code = "Enter")) => ~InLoop

\* Plain c checked out a commit below the first.
C17_Witness ==
    /\ screen = "log" /\ ~InLoop
    /\ outcome.kind = "Checkout"
    /\ outcome.oid > 1
    /\ ev.key.code = "Char"

\* Enter returned a branch below the first of a filtered list.
C17_PickerWitness ==
    /\ screen = "picker" /\ ~InLoop
    /\ outcome.kind = "Select"
    /\ frame.selected_index > 0
    /\ frame.query # <<>>
    /\ outcome.branch # NoName

\* C18 as stated: once raw mode or the alternate screen was entered, every way
\* out of the command (a failing set-up step, a failing loop, a failing step
\* of the restoration, a normal return) leaves raw mode disabled and the
\* alternate screen left.
C18_TerminalRestored ==
    (screen # "none" /\ pc = "exit") => (~term.raw /\ ~term.alt)

C21_BrokenWitness ==
    /\ load.phase = "graph"
    /\ Len(entries) >= 2
    /\ Len(load.refs) = 2
    /\ load.refs[1].kind = "broken"
    /\ load.entry_refs[2] = <<"v1">>

\* Two references of the same shorthand on one commit: the name is listed
\* once for each.
C21_HomonymWitness ==
    /\ load.phase = "graph"
    /\ Len(entries) >= 1
    /\ load.entry_refs[1] = <<"main", "main">>

\* ------------------------------------------ claims about a failing fetch
\* A fetch was made for the highlighted item since it became the highlighted
\* one, and the detail is empty: the fetch failed.
FetchFailed ==
    /\ screen # "none"
    /\ obs.fetch_count >= 1
    /\ IF screen = "log" THEN lv.details = NoDetails
                         ELSE bp.branch_info = NoInfo

\* C24: after a failed detail fetch the loop is still running and no result,
\* error or other, has been returned; no second fetch is made for the item and
\* none is pending as long as it stays the highlighted one; the frames drawn
\* show an empty detail pane (in the picker without the loading indicator).
C24_FailedFetchNotRetried ==
    FetchFailed =>
        /\ InLoop
        /\ outcome = NoOutcome
        /\ obs.fetch_count = 1
        /\ IF screen = "log" THEN ~lv.pending_fetch
                             ELSE ~bp.pending_info_fetch /\ ~bp.info_loading
        /\ frame.drawn =>
              IF screen = "log" THEN frame.details = NoDetails
              ELSE frame.branch_info = NoInfo /\ ~frame.info_loading

\* The history browser draws an empty detail pane three windows after the
\* failed fetch of an entry the selection was moved to.
C24_Witness ==
    /\ FetchFailed
    /\ screen = "log" /\ pc = "poll" /\ frame.drawn
    /\ lv.selected_index > 0
    /\ now - obs.fetch_at >= 3 * LOG_DEBOUNCE_MS

\* The same in the branch picker, one window after the failed fetch.
C24_PickerWitness ==
    /\ FetchFailed
    /\ screen = "picker" /\ pc = "poll" /\ frame.drawn
    /\ frame.item # NoName
    /\ now - obs.fetch_at >= PICKER_DEBOUNCE_MS

\* ======================================================================
\* `gx log` from its call of get_log to the set-up of the terminal
\* (commands/log.rs:21-31).  build_graph, which get_log runs on the loaded
\* entries, is the subject of SpecGraph and left out here.
\* ======================================================================
\* commands/log.rs:23: get_log(limit).map_err(LogError::GitError)? has
\* returned: the error goes to the caller, or run goes on with the log.
LogGetLog ==
    /\ screen = "none" /\ pc = "idle"
    /\ LoadReturned
    /\ screen' = "log"
    /\ IF load.phase = "err"
       THEN /\ pc' = "exit"
            /\ exit' = ExitErr
            /\ UNCHANGED <<lv, obs>>
       ELSE /\ pc' = "start"
            /\ exit' = exit
            /\ lv' = LvInit
            /\ obs' = [NoObs EXCEPT !.fetch_item = NoOid]
    /\ UNCHANGED <<dvars, gvars, load, co, watch, now, poll_start, bp, all_branches,
                   outcome, frame, ev, term>>

LogNext == LoadNext \/ LogGetLog \/ LogStart

SpecLog == LoadInit /\ [][LogNext]_vars

\* ------------------------------------- claims about a repository in a bad state
\* The command has not touched the terminal and is not on its way to.
TerminalUntouched ==
    /\ term = TermOff
    /\ pc \in {"idle", "start", "exit"}
\* get_log fails for no other reason: the references can be read.
RefsReadable == \A i \in 1..Len(load.refs) : load.refs[i].kind # "iter_err"

\* C25 as stated: when the repository cannot be opened or HEAD is unborn, the
\* log command returns an error to its caller and never sets up the terminal.
C25_BadRepositoryFails ==
    (load.phase # "none"
        /\ (load.repo = "unreadable" \/ load.head = "unborn")) =>
        /\ TerminalUntouched
        /\ pc = "exit" => exit = ExitErr

\* C25, amended: when the repository cannot be opened the log command returns
\* an error to its caller; when HEAD is unborn and nothing else fails it
\* finds the log empty and returns without an error; in both cases it never
\* sets up the terminal.
C25_BadRepository ==
    (load.phase # "none"
        /\ (load.repo = "unreadable" \/ load.head = "unborn")) =>
        /\ TerminalUntouched
        /\ (pc = "exit" /\ load.repo = "unreadable") => exit = ExitErr
        /\ (pc = "exit" /\ load.repo = "ok" /\ RefsReadable) =>
              (exit = ExitOk /\ entries = <<>>)

\* An unborn HEAD in a repository with a reference and a limit of two: the
\* command has returned without an error.
C25_Witness ==
    /\ load.phase = "graph"
    /\ load.repo = "ok" /\ load.head = "unborn"
    /\ load.limit >= 2
    /\ load.refs # <<>>
    /\ pc = "exit" /\ exit = ExitOk

\* The repository cannot be opened: the command has returned the error.
C25_UnreadableWitness ==
    /\ load.phase = "err"
    /\ load.repo = "unreadable"
    /\ pc = "exit" /\ exit = ExitErr

\* ======================================================================
\* `gx log` on a log of two commits, with the fairness its execution has: a
\* step of the loop that can be taken is taken, a poll ends, and time goes on
\* (up to the end of the observation).
\* ======================================================================
IdleNext ==
    \/ LogStart
    \/ EnableRawMode \/ EnterAlternateScreen \/ NewTerminal
    \/ LvCheck \/ LvFetch \/ LvDraw \/ LvKey \/ LvNoKey \/ LvInputError
    \/ Tick
    \/ DisableRawMode \/ LeaveAlternateScreen \/ ShowCursor \/ CommandResult

\* commands/log.rs:21: the command is `gx log`
IdleInit ==
    ScreenInit("fetch", {2}) /\ screen = "log"

SpecIdle ==
    /\ IdleInit
    /\ [][IdleNext]_vars
    /\ WF_vars(LvCheck) /\ WF_vars(LvFetch) /\ WF_vars(LvDraw)
    /\ WF_vars(LvNoKey) /\ WF_vars(Tick)

\* ------------------------------------ claims about the fetch being made
\* The times at which the debounce timer can be started early enough for its
\* window to end within the observation.
WatchedTimes ==
    {k * ClockStep : k \in 0..MaxTicks} \cap
        0..(MaxTicks * ClockStep - LOG_DEBOUNCE_MS)

\* C28: while the loop keeps running, an entry that is highlighted and not
\* yet fetched, on entry or after a key, gets the debounce timer started; and
\* a timer started at time t and not restarted leads to the fetch, whether or
\* not further keys arrive.
C28_EventuallyFetched ==
    /\ (InLoop /\ obs.fetch_count = 0)
           ~> (~InLoop \/ obs.fetch_count >= 1 \/ lv.pending_fetch)
    /\ \A t \in WatchedTimes :
          (InLoop /\ lv.pending_fetch /\ lv.last_selection_change = t)
              ~> (~InLoop \/ obs.fetch_count >= 1
                         \/ lv.last_selection_change # t)

\* The entry highlighted on entry was fetched, the selection never having
\* left it, when the window had just elapsed.
C28_Witness ==
    /\ screen = "log" /\ InLoop
    /\ obs.stable_since = 0
    /\ lv.selected_index = 0
    /\ obs.fetch_count = 1 /\ obs.fetch_item = entries[1]
    /\ obs.fetch_at = 2 * POLL_MS
    /\ ~lv.pending_fetch

\* The second entry was fetched some time after a key moved the selection
\* to it.
C28_KeyWitness ==
    /\ screen = "log" /\ InLoop
    /\ obs.stable_since > 0
    /\ lv.selected_index = 1
    /\ obs.fetch_count = 1 /\ obs.fetch_item = entries[2]
    /\ ~lv.pending_fetch
\* ======================================================================
\* `gx log` on a log longer than the commit list is high, in a terminal that
\* is resized between draws.
\* ======================================================================
ScrollLen == MaxHeight + 2

ScrollInit ==
    ScreenInit("scroll", {ScrollLen}) /\ screen = "log"

SpecScroll == ScrollInit /\ [][IdleNext]_vars

\* The selection is one of the h rows that begin at the offset.
InViewport(sel, off, h) == off <= sel /\ sel < off + h

\* C29: whenever the history browser has drawn a frame with a visible list
\* height h >= 1, the selection is inside the viewport the frame was drawn
\* with, scroll_offset <= selected_index < scroll_offset + h; and a draw with
\* such a height that finds the selection inside the viewport leaves
\* scroll_offset as it was.
C29_SelectionInViewport ==
    /\ []((screen = "log" /\ InLoop /\ frame.drawn
              /\ frame.visible_height >= 1) =>
            /\ lv.scroll_offset = frame.scroll_offset
            /\ lv.selected_index = frame.selected_index
            /\ InViewport(lv.selected_index, lv.scroll_offset,
                          frame.visible_height))
    /\ [][(screen = "log" /\ pc = "draw" /\ pc' = "poll"
              /\ frame'.visible_height >= 1
              /\ InViewport(lv.selected_index, lv.scroll_offset,
                            frame'.visible_height))
            => lv'.scroll_offset = lv.scroll_offset]_vars

\* The viewport was moved down to keep the selection on its last row.
C29_Witness ==
    /\ screen = "log" /\ InLoop /\ frame.drawn
    /\ frame.visible_height = 2
    /\ lv.scroll_offset = 2
    /\ lv.selected_index = 3

\* The selection is on the first row of a viewport that is not at the top,
\* and the list is one row high.
C29_TopWitness ==
    /\ screen = "log" /\ InLoop /\ frame.drawn
    /\ frame.visible_height = 1
    /\ lv.scroll_offset = ScrollLen - 1
    /\ lv.selected_index = ScrollLen - 1

\* The selection is in the middle of a viewport that a draw left where it
\* was.
C29_InsideWitness ==
    /\ screen = "log" /\ InLoop /\ frame.drawn
    /\ frame.visible_height = 3
    /\ lv.scroll_offset = 1
    /\ lv.selected_index = 2
\* ------------------------------ claims about the columns of build_graph
\* The lanes of the latest row that go through it: they await another commit
\* than the row's own, before the row and after it.
ThroughLanes ==
    {i \in 1..Len(last.lanes) :
        /\ i # last.commit_lane
        /\ \A k \in 1..Len(last.closing_lanes) : last.closing_lanes[k] # i}

\* The slots of the latest row left of column i that the row emptied: the
\* closing lanes, and the commit lane of a commit without parents.
VacatedLeftOf(i) ==
    {j \in 1..(i - 1) :
        \/ \E k \in 1..Len(last.closing_lanes) : last.closing_lanes[k] = j
        \/ j = last.commit_lane /\ last.parents = <<>>}

\* C30: a lane that goes through a row in column i is, in the LaneTable the
\* next row is drawn from, in column i less the number of slots to its left
\* that the row emptied (closing lanes, a root's commit lane), awaiting the
\* same commit: its column is lower on the next row exactly when there is
\* such a slot, and never higher.
C30_ColumnShiftsLeft ==
    Rendered =>
        /\ lanes = last.compacted
        /\ \A i \in ThroughLanes :
              LET col == i - Cardinality(VacatedLeftOf(i)) IN
              /\ col >= 1 /\ col <= Len(lanes)
              /\ lanes[col] = last.lanes[i]
              /\ last.lanes[i] # NoOid /\ last.lanes[i] # last.oid

\* A lane right of a closing lane is one column lower on the next row.
C30_Witness ==
    /\ Rendered
    /\ \E i \in ThroughLanes :
          /\ \E j \in VacatedLeftOf(i) : j # last.commit_lane
          /\ Cardinality(VacatedLeftOf(i)) = 1
          /\ lanes[i - 1] = last.lanes[i]
          /\ last.line[i] = "|"

\* A lane right of the lane of a commit without parents is one column lower
\* on the next row.
C30_RootWitness ==
    /\ Rendered
    /\ last.parents = <<>>
    /\ \E i \in ThroughLanes :
          /\ VacatedLeftOf(i) = {last.commit_lane}
          /\ lanes[i - 1] = last.lanes[i]
          /\ last.line[i] = "|"

\* A lane with no emptied slot to its left keeps its column.
C30_StableWitness ==
    /\ Rendered
    /\ \E i \in ThroughLanes :
          /\ i > 1
          /\ VacatedLeftOf(i) = {}
          /\ lanes[i] = last.lanes[i]
\* ------------------------- claims about the ids pending in the LaneTable
\* No parent read so far lies beyond the entries: the walk was not cut short
\* by `limit` above any of them.
NoTruncation ==
    \A k \in 1..Len(parent_map) : Beyond \notin Range(parent_map[k])

\* The parents of the commits rendered so far.
ParentsOfRendered == UNION {Range(parent_map[k]) : k \in 1..Len(parent_map)}

\* C31: with the entries in child-before-parent order and no parent beyond
\* them, every id pending in the LaneTable between two rows is a parent of
\* a commit already rendered and the id of an entry not yet rendered, and
\* the LaneTable is empty after the last row.
C31_PendingAreFutureParents ==
    NoTruncation =>
        /\ \A i \in 1..Len(lanes) :
              /\ lanes[i] \in ParentsOfRendered
              /\ \E k \in row..Len(entries) : entries[k] = lanes[i]
        /\ ~RowsLeft(row, entries) => lanes = <<>>

\* All the rows of a history of NumCommits commits with a merge are done,
\* none of its parents beyond the entries.
C31_Witness ==
    /\ result.returned /\ NoTruncation
    /\ Len(entries) = NumCommits
    /\ \E k \in 1..Len(parent_map) : Len(parent_map[k]) = 2
    /\ lanes = <<>>

\* Between two rows, two lanes are pending different commits.
C31_PendingWitness ==
    /\ NoTruncation /\ Rendered /\ RowsLeft(row, entries)
    /\ Len(lanes) >= 2 /\ lanes[1] # lanes[2]
\* ---------------------------------- claims about the characters of a line
\* The positions of a line that hold the character c.
Columns(line, c) == {i \in 1..Len(line) : line[i] = c}

\* C32: the LaneTable holds no empty slot between two rows, so a row that
\* finds no lane waiting for its commit appends one (the search for an empty
\* slot finds none), and every line consists of the characters *, |, / and
\* \ only, with exactly one *, and is pushed as it was built (there is no
\* trailing space to trim).
C32_NoEmptySlotNoSpace ==
    /\ \A i \in 1..Len(lanes) : lanes[i] # NoOid
    /\ Rendered =>
          /\ EmptySlots = {}
          /\ FirstFree(last.table) = 0
          /\ PendingSlots = {} => last.commit_lane = Len(last.table) + 1
          /\ \A i \in 1..Len(last.line) :
                last.line[i] \in {"*", "|", "/", "\\"}
          /\ Cardinality(Columns(last.line, "*")) = 1
          /\ last.pushed = last.line
          /\ graph_lines[last.index] = last.line

\* A row without a waiting lane appended its lane to a table that was not
\* empty, and its line has a | and a \.
C32_Witness ==
    /\ Rendered
    /\ PendingSlots = {} /\ last.table # <<>>
    /\ Columns(last.line, "|") # {}
    /\ Columns(last.line, "\\") # {}

\* A line with a / between the * and a |.
C32_ClosingWitness ==
    /\ Rendered
    /\ last.line = <<"*", "/", "|">>

\* C33: in every rendered line, every / is to the right of the *, and every
\* \ is to the right of every *, | and / of the line.
C33_SlashesRightOfStar ==
    Rendered =>
        LET line == graph_lines[last.index] IN
        /\ \A i \in Columns(line, "/") : \A j \in Columns(line, "*") : j < i
        /\ \A i \in Columns(line, "\\") :
              \A j \in Columns(line, "*") \cup Columns(line, "|")
                        \cup Columns(line, "/") : j < i

\* A line with a / and a \: a merge commit that two lanes were waiting for.
C33_Witness ==
    /\ Rendered
    /\ Columns(graph_lines[last.index], "/") # {}
    /\ Columns(graph_lines[last.index], "\\") # {}

\* A line with the * right of a | and left of a \.
C33_MiddleWitness ==
    /\ Rendered
    /\ graph_lines[last.index] = <<"|", "*", "\\">>

\* ------------------------------------ claims about the scroll arithmetic
\* C34: whatever the size of the terminal, the update of scroll_offset never
\* evaluates visible_height - 1 with visible_height = 0: no draw panics on
\* the subtraction and no frame is drawn after it wrapped.
C34_NoSubtractionBelowZero ==
    /\ exit # ExitPanic
    /\ (screen = "log" /\ frame.drawn) => ~frame.wrapped

\* A list of no visible row was drawn without the subtraction: the
\* selection was above the viewport.
C34_ZeroHeightWitness ==
    /\ screen = "log" /\ InLoop /\ frame.drawn
    /\ frame.visible_height = 0
    /\ ~frame.wrapped

\* ======================================================================
\* `gx checkout` without a query: the branch picker alone, with the history
\* of the key events.
\* ======================================================================
PickerInit ==
    ScreenInit("keys", {}) /\ screen = "picker"

PickerNext ==
    \/ EnableRawMode \/ EnterAlternateScreen \/ NewTerminal
    \/ BpCheck \/ BpFetch \/ BpDraw \/ BpKey \/ BpNoKey \/ BpInputError
    \/ Tick
    \/ DisableRawMode \/ LeaveAlternateScreen \/ ShowCursor \/ CommandResult

SpecPicker == PickerInit /\ [][PickerNext]_vars

\* The loop has just handled a query edit (a character or Backspace), and
\* the name that was highlighted when the key arrived is the one the edited
\* query highlights.
EditKeptHighlight ==
    /\ screen = "picker" /\ pc = "check" /\ ev.handled
    /\ BpHandleKey(ev.key, bp).kind = "edit"
    /\ BpHighlighted # NoName
    /\ BpHighlighted =
          Get(filter_branches(all_branches, ev.query), ev.selected_index,
              NoName)

\* C35: the iteration of the picker's loop that follows a query edit after
\* which the same branch name is highlighted recomputes the filtered list
\* and the index, and leaves the cached branch info, the loading flag, the
\* debounce timer and the pending-fetch flag as they were: the edit starts
\* no fetch of its own.
C35_EditKeepsInfo ==
    [][(EditKeptHighlight /\ pc' = "fetch") =>
          /\ bp'.filtered = filter_branches(all_branches, bp.query)
          /\ bp'.selected_index = 0
          /\ bp'.last_selected = BpHighlighted
          /\ bp'.branch_info = bp.branch_info
          /\ bp'.info_loading = bp.info_loading
          /\ bp'.last_selection_change = bp.last_selection_change
          /\ bp'.pending_info_fetch = bp.pending_info_fetch
          /\ obs'.fetch_count = obs.fetch_count]_vars

\* A character was typed that shortens the list and keeps its first name,
\* whose info had been fetched.
C35_Witness ==
    /\ EditKeptHighlight
    /\ ev.key.code = "Char"
    /\ bp.branch_info # NoInfo
    /\ ~bp.pending_info_fetch
    /\ Len(filter_branches(all_branches, bp.query)) < Len(bp.filtered)

\* Backspace widened the list and kept its first name, whose info had been
\* fetched.
C35_BackspaceWitness ==
    /\ EditKeptHighlight
    /\ ev.key.code = "Backspace"
    /\ bp.branch_info # NoInfo
    /\ Len(filter_branches(all_branches, bp.query)) > Len(bp.filtered)

\* An edit arrived while the fetch for the highlighted name was pending.
C35_PendingWitness ==
    /\ EditKeptHighlight
    /\ bp.pending_info_fetch
    /\ bp.query # ev.query

\* ------------------------------------ claims about the follow-up checkout
\* The command has called checkout_commit or checkout_branch.
CheckedOut == co.phase = "checkout"

\* C36: the commit or branch chosen on the screen is checked out only after
\* the screen's loop has returned it and the terminal has been restored
\* (raw mode off, alternate screen left), and the target is the choice; no
\* checkout is executed before that, nor when the loop returned Quit, no
\* selection or an error, nor when a step of restore_terminal failed.
C36_CheckoutAfterRestore ==
    (screen # "none") =>
        /\ CheckedOut =>
              /\ pc = "exit" /\ term = TermOff
              /\ exit \in {ExitOk, ExitErr}
              /\ \/ /\ screen = "log" /\ outcome.kind = "Checkout"
                    /\ co.target = [kind |-> "Commit", oid |-> outcome.oid]
                 \/ /\ screen = "picker" /\ outcome.kind = "Select"
                    /\ outcome.branch # NoName
                    /\ co.target = [kind |-> "Branch", name |-> outcome.branch]
        /\ pc # "exit" => ~CheckedOut
        /\ (pc = "exit" /\ exit = ExitOk /\ entries # <<>>
              /\ outcome.kind = "Checkout") => CheckedOut
        /\ (pc = "exit" /\ exit = ExitOk /\ outcome.kind = "Select"
              /\ outcome.branch # NoName) => CheckedOut

\* A commit chosen in the history browser was checked out.
C36_Witness ==
    /\ screen = "log" /\ CheckedOut
    /\ Len(entries) >= 2
    /\ co.target.oid = entries[2]
    /\ exit = ExitOk

\* A branch chosen in the picker was checked out, and the checkout failed.
C36_BranchWitness ==
    /\ screen = "picker" /\ CheckedOut
    /\ co.target.name = all_branches[1]
    /\ exit = ExitErr

\* The loop returned a commit to check out and a step of restore_terminal
\* failed: the command ended without the checkout.
C36_RestoreFailedWitness ==
    /\ screen = "log" /\ pc = "exit" /\ outcome.kind = "Checkout"
    /\ term # TermOff
    /\ ~CheckedOut

\* Enter on an empty list of the picker: nothing to check out.
C36_NoSelectionWitness ==
    /\ screen = "picker" /\ pc = "exit" /\ outcome.kind = "Select"
    /\ outcome.branch = NoName
    /\ ~CheckedOut /\ exit = ExitOk

\* -------------------------- claims about the search of `gx checkout <query>`
\* Some name of the list matches the query, exactly or by the scorer.
SomeMatch(cands) ==
    \E i \in 1..Len(cands) : cands[i].exact \/ cands[i].m.some

\* C37: the target a search phase finds is a branch exactly when some name
\* the phase went over matches the query, whether or not the query is a
\* valid commit reference, and the query as a commit only when none matches
\* and it is a valid commit reference in that phase; and when a name known
\* before the refresh matches or the query is a valid commit reference in
\* the first phase, the target is found there and nothing is fetched.
C37_BranchBeforeCommit ==
    InCheckout =>
        /\ co.result # NoTarget =>
              LET n == Len(co.searches) IN
              /\ n >= 1 /\ co.searches[n].found
              /\ co.result.kind = "Branch" <=> SomeMatch(co.searches[n].over)
              /\ co.result.kind = "Branch" =>
                    /\ co.result.b \in 1..Len(co.searches[n].over)
                    /\ LET c == co.searches[n].over[co.result.b] IN
                       c.exact \/ c.m.some
              /\ co.result.kind = "Commit" =>
                    /\ ~SomeMatch(co.searches[n].over)
                    /\ co.commit_ok[n]
        /\ (Len(co.searches) >= 1 /\ (SomeMatch(co.known) \/ co.commit_ok[1]))
              => /\ co.fetches = 0
                 /\ Len(co.searches) = 1
                 /\ co.result # NoTarget

\* A name matched a query that is also a valid commit reference: the branch
\* is the target, found without a refresh.
C37_Witness ==
    /\ InCheckout
    /\ co.outcome = "Target"
    /\ co.result.kind = "Branch"
    /\ co.commit_ok[1]
    /\ co.fetches = 0

\* No name matched in either phase, and the query became a valid commit
\* reference only after the refresh.
C37_CommitAfterRefreshWitness ==
    /\ InCheckout
    /\ co.outcome = "Target"
    /\ co.result.kind = "Commit"
    /\ co.known # <<>> /\ co.reloaded # <<>>
    /\ ~co.commit_ok[1]
    /\ co.fetches = 1

\* ======================================================================
\* The dialogs: ui/confirm.rs, run, and ui/file_picker.rs, run.
\* confirm::run makes its own inline terminal and switches raw mode itself;
\* file_picker::run is handed a terminal that commands/add.rs has set up.
\* ======================================================================
\* git/status.rs:104-124: get_status_files goes over the paths once and
\* pushes a path to the staged list, the unstaged list, or both, and sorts
\* each list by path.  A status entry of the model is a path with its two
\* flags; paths are numbered in their order.  commands/add.rs:43-46 opens
\* the picker only when one of the lists has an entry.
StatusEntries ==
    {e \in [path : 1..MaxFiles, staged : BOOLEAN, unstaged : BOOLEAN] :
        e.staged \/ e.unstaged}
StatusLists ==
    {ss \in SeqsUpTo(StatusEntries, MaxFiles) :
        ss # <<>> /\ \A i \in 1..Len(ss) : ss[i].path = i}
staged_files(ss) ==
    LET sel == SelectSeq(ss, LAMBDA e : e.staged) IN
    [i \in 1..Len(sel) |-> sel[i].path]
unstaged_files(ss) ==
    LET sel == SelectSeq(ss, LAMBDA e : e.unstaged) IN
    [i \in 1..Len(sel) |-> sel[i].path]

\* The state at the entry of run: of confirm::run in cooked mode, of
\* file_picker::run with the lists of get_status_files.
DialogInit ==
    /\ entries = <<>> /\ parent_map = <<>> /\ lanes = <<>>
    /\ graph_lines = <<>> /\ row = 1 /\ last = NoRow /\ result = NoResult
    /\ load = NoLoad /\ co = NoCheckout
    /\ now = 0 /\ poll_start = 0 /\ lv = <<>> /\ bp = <<>>
    /\ all_branches = <<>> /\ outcome = NoOutcome /\ obs = NoObs
    /\ frame = NoFrame /\ ev = NoEvent /\ watch = "none" /\ exit = NoExit
    /\ \/ /\ screen = "confirm"
          /\ pc = "cf_terminal"
          /\ term = TermOff
          /\ cf = NoConfirm
          /\ fp = NoFiles
       \/ /\ screen = "files"
          /\ pc = "fp_start"
          /\ term = [raw |-> TRUE, alt |-> TRUE]
          /\ cf = NoConfirm
          /\ \E ss \in StatusLists :
                fp = [all_files |-> <<>>, staged |-> staged_files(ss),
                      unstaged |-> unstaged_files(ss), selected_index |-> 0,
                      selected_files |-> {}, initial_staged |-> {},
                      marks |-> <<>>, toggled |-> FALSE]

\* run returns out; its locals stay as they were.
DialogReturn(out) ==
    /\ outcome' = out
    /\ pc' = "returned"

\* ----------------------------------------------------- ui/confirm.rs: run
ConfirmKeys ==
    {Plain("Left"), Plain("Right"), Plain("Esc"), Plain("Enter"), Plain("Tab"),
     Key("Char", "h", "NONE"), Key("Char", "l", "NONE"),
     Key("Char", "y", "NONE"), Key("Char", "Y", "SHIFT"),
     Key("Char", "n", "NONE"), Key("Char", "N", "SHIFT")}

\* confirm.rs:10-18: Terminal::with_options(..)?
CfNewTerminal ==
    /\ screen = "confirm" /\ pc = "cf_terminal"
    /\ \/ pc' = "cf_raw" /\ outcome' = outcome
       \/ DialogReturn([kind |-> "Err"])
    /\ UNCHANGED <<gvars, load, co, dvars, watch, screen, now, poll_start, lv,
                   bp, all_branches, obs, frame, ev, term, exit>>

\* confirm.rs:20: enable_raw_mode()?
CfEnableRawMode ==
    /\ screen = "confirm" /\ pc = "cf_raw"
    /\ \/ /\ term' = [term EXCEPT !.raw = TRUE]
          /\ pc' = "cf_draw" /\ outcome' = outcome
       \/ /\ term' = term
          /\ DialogReturn([kind |-> "Err"])
    /\ UNCHANGED <<gvars, load, co, dvars, watch, screen, now, poll_start, lv,
                   bp, all_branches, obs, frame, ev, exit>>

\* confirm.rs:25-51: terminal.draw(..)?
CfDraw ==
    /\ screen = "confirm" /\ pc = "cf_draw"
    /\ \/ pc' = "cf_read" /\ outcome' = outcome
       \/ DialogReturn([kind |-> "Err"])
    /\ UNCHANGED <<gvars, load, co, dvars, watch, screen, now, poll_start, lv,
                   bp, all_branches, obs, frame, ev, term, exit>>

\* confirm.rs:57-71: the answer a key gives, if it gives one
CfAnswer(key, selected) ==
    IF key.code = "Char" /\ key.ch \in {"y", "Y"} THEN [some |-> TRUE, v |-> TRUE]
    ELSE IF key.code = "Esc" \/ (key.code = "Char" /\ key.ch \in {"n", "N"})
    THEN [some |-> TRUE, v |-> FALSE]
    ELSE IF key.code = "Enter" THEN [some |-> TRUE, v |-> selected = 0]
    ELSE [some |-> FALSE]

\* confirm.rs:55-56: the selection after a key that gives no answer
CfSelect(key, selected) ==
    IF key.code = "Left" \/ (key.code = "Char" /\ key.ch = "h") THEN 0
    ELSE IF key.code = "Right" \/ (key.code = "Char" /\ key.ch = "l") THEN 1
    ELSE selected

\* confirm.rs:53-74: event::read()? fails, yields an event that is no key
\* event, or yields a key.  A key that answers runs disable_raw_mode().ok(),
\* whose failure is dropped, and returns the answer.
CfRead ==
    /\ screen = "confirm" /\ pc = "cf_read"
    /\ \/ /\ DialogReturn([kind |-> "Err"])
          /\ UNCHANGED <<cf, term>>
       \/ /\ pc' = "cf_draw"
          /\ UNCHANGED <<cf, term, outcome>>
       \/ \E key \in ConfirmKeys :
             LET a == CfAnswer(key, cf.selected) IN
             IF a.some
             THEN /\ term' \in {[term EXCEPT !.raw = FALSE], term}
                  /\ DialogReturn([kind |-> "Ok", value |-> a.v])
                  /\ cf' = cf
             ELSE /\ cf' = [cf EXCEPT !.selected = CfSelect(key, @)]
                  /\ pc' = "cf_draw"
                  /\ UNCHANGED <<term, outcome>>
    /\ UNCHANGED <<gvars, load, co, fp, watch, screen, now, poll_start, lv,
                   bp, all_branches, obs, frame, ev, exit>>

\* ------------------------------------------------- ui/file_picker.rs: run
\* Row i of all_files is all_files[i + 1]; rows are counted from 0 as in
\* the code.  fp.marks and fp.toggled are history: the check marks an
\* onlooker keeps per row, and whether a toggling key has been handled; ev
\* is the key handled last.
Rows(f) == 0..(Len(f.all_files) - 1)

FileKeys ==
    {Plain("Esc"), Plain("Enter"), Plain("Up"), Plain("Down"), Plain("Tab"),
     Key("Char", "c", "CONTROL"), Key("Char", "c", "NONE"),
     Key("Char", "q", "NONE"), Key("Char", "k", "NONE"),
     Key("Char", "j", "NONE"), Key("Char", " ", "NONE"),
     Key("Char", "a", "NONE")}

\* file_picker.rs:19-41: the rows, staged first, the staged rows checked;
\* no row at all returns None.
FpStart ==
    /\ screen = "files" /\ pc = "fp_start"
    /\ LET all == [i \in 1..Len(fp.staged) |->
                      [path |-> fp.staged[i], is_staged |-> TRUE]]
                  \o [i \in 1..Len(fp.unstaged) |->
                      [path |-> fp.unstaged[i], is_staged |-> FALSE]]
           sel == {i \in 0..(Len(all) - 1) : all[i + 1].is_staged}
       IN  IF all = <<>>
           THEN /\ DialogReturn([kind |-> "None"])
                /\ fp' = fp
           ELSE /\ fp' = [fp EXCEPT !.all_files = all,
                                    !.selected_files = sel,
                                    !.initial_staged = sel,
                                    !.marks = [i \in 1..Len(all) |->
                                                  all[i].is_staged]]
                /\ pc' = "fp_draw"
                /\ outcome' = outcome
    /\ UNCHANGED <<gvars, load, co, cf, watch, screen, now, poll_start, lv,
                   bp, all_branches, obs, frame, ev, term, exit>>

\* file_picker.rs:46-115: terminal.draw(..)?
FpDraw ==
    /\ screen = "files" /\ pc = "fp_draw"
    /\ \/ pc' = "fp_read" /\ outcome' = outcome
       \/ DialogReturn([kind |-> "Err"])
    /\ UNCHANGED <<gvars, load, co, dvars, watch, screen, now, poll_start, lv,
                   bp, all_branches, obs, frame, ev, term, exit>>

\* Faulty variant: a row that was staged at entry is never unstaged.
to_unstage_none(f) == {}

\* file_picker.rs:132-136; the Vec is collected from a HashSet, in no
\* particular order, and is kept as the set of its paths.
to_unstage(f) ==
    {f.all_files[i + 1].path :
        i \in {j \in f.initial_staged :
                  j \notin f.selected_files /\ f.all_files[j + 1].is_staged}}

\* file_picker.rs:126-130
to_stage(f) ==
    {f.all_files[i + 1].path :
        i \in {j \in f.selected_files :
                  j \notin f.initial_staged /\ ~f.all_files[j + 1].is_staged}}

\* file_picker.rs:151-157: space
toggle(f) ==
    IF f.selected_index \in f.selected_files
    THEN f.selected_files \ {f.selected_index}
    ELSE f.selected_files \cup {f.selected_index}

\* file_picker.rs:158-164: a
toggle_all(f) ==
    IF Cardinality(f.selected_files) = Len(f.all_files) THEN {}
    ELSE Rows(f)

\* The match on (key.code, key.modifiers), arms in the code's order.
FpHandleKey(key, f) ==
    IF key.code = "Esc"
       \/ (key.code = "Char" /\ key.ch = "c" /\ key.mods = "CONTROL")
    THEN [kind |-> "None", fp |-> f]
    ELSE IF key.code = "Char" /\ key.ch = "q"
    THEN [kind |-> "None", fp |-> f]
    ELSE IF key.code = "Enter"
    THEN [kind |-> "Some", fp |-> f]
    ELSE IF key.code = "Up" \/ (key.code = "Char" /\ key.ch = "k")
    THEN [kind |-> "move",
          fp |-> [f EXCEPT !.selected_index = move_up(@)]]
    ELSE IF key.code = "Down" \/ (key.code = "Char" /\ key.ch = "j")
    THEN [kind |-> "move",
          fp |-> [f EXCEPT !.selected_index =
                      IF @ < Len(f.all_files) - 1 THEN @ + 1 ELSE @]]
    ELSE IF key.code = "Char" /\ key.ch = " "
    THEN [kind |-> "toggle", fp |-> [f EXCEPT !.selected_files = toggle(f)]]
    ELSE IF key.code = "Char" /\ key.ch = "a"
    THEN [kind |-> "all", fp |-> [f EXCEPT !.selected_files = toggle_all(f)]]
    ELSE [kind |-> "none", fp |-> f]

\* The onlooker's check marks after a key: space flips the mark of the
\* highlighted row, a unchecks all rows if all are checked and checks all
\* otherwise.
MarksAfter(kind, f) ==
    IF kind = "toggle"
    THEN [f.marks EXCEPT ![f.selected_index + 1] = ~@]
    ELSE IF kind = "all"
    THEN [i \in 1..Len(f.marks) |-> \E j \in 1..Len(f.marks) : ~f.marks[j]]
    ELSE f.marks

\* file_picker.rs:117-167: event::read()? fails, yields an event that is no
\* key event, or yields a key.
FpRead ==
    /\ screen = "files" /\ pc = "fp_read"
    /\ \/ /\ DialogReturn([kind |-> "Err"])
          /\ UNCHANGED <<fp, ev>>
       \/ /\ pc' = "fp_draw"
          /\ UNCHANGED <<fp, outcome, ev>>
       \/ \E key \in FileKeys :
             LET h == FpHandleKey(key, fp) IN
             /\ ev' = [handled |-> TRUE, key |-> key]
             /\ IF h.kind = "None"
                THEN DialogReturn([kind |-> "None"]) /\ fp' = fp
                ELSE IF h.kind = "Some"
                THEN /\ DialogReturn([kind |-> "Some",
                                       to_stage |-> to_stage(fp),
                                       to_unstage |-> to_unstage(fp)])
                     /\ fp' = fp
                ELSE /\ fp' = [h.fp EXCEPT
                                  !.marks = MarksAfter(h.kind, fp),
                                  !.toggled =
                                      @ \/ h.kind \in {"toggle", "all"}]
                     /\ pc' = "fp_draw"
                     /\ outcome' = outcome
    /\ UNCHANGED <<gvars, load, co, cf, watch, screen, now, poll_start, lv,
                   bp, all_branches, obs, frame, term, exit>>

DialogNext ==
    \/ CfNewTerminal \/ CfEnableRawMode \/ CfDraw \/ CfRead
    \/ FpStart \/ FpDraw \/ FpRead

SpecDialog == DialogInit /\ [][DialogNext]_vars

\* ------------------------------------------ claims about the confirm prompt
\* C38: whenever confirm::run has returned, with an answer or with an error
\* of making the terminal, drawing or reading, raw mode is off.
C38_RawModeOffAtReturn ==
    (screen = "confirm" /\ pc = "returned") => ~term.raw

\* ------------------------------------------- claims about the file picker
\* The paths of the rows of the given kind (staged at entry or not) whose
\* check mark is as given.
PathsOf(is_staged, mark) ==
    {fp.all_files[i].path :
        i \in {j \in 1..Len(fp.all_files) :
                  fp.all_files[j].is_staged = is_staged /\ fp.marks[j] = mark}}

\* C39: when the file picker has returned on Enter, after any keys, to_stage
\* is the paths of the rows not staged at entry that are checked and
\* to_unstage the paths of the rows staged at entry that are unchecked; both
\* are empty when no toggling key was handled; and Esc, q and Ctrl-C, and
\* no other key, return no result.
C39_StageAndUnstage ==
    (screen = "files") =>
        /\ \A i \in Rows(fp) : (i \in fp.selected_files) = fp.marks[i + 1]
        /\ (pc = "returned" /\ outcome.kind = "Some") =>
              /\ outcome.to_stage = PathsOf(FALSE, TRUE)
              /\ outcome.to_unstage = PathsOf(TRUE, FALSE)
              /\ ~fp.toggled =>
                    outcome.to_stage = {} /\ outcome.to_unstage = {}
        /\ (pc = "returned" /\ outcome.kind = "None") =>
              ev.handled /\ FpHandleKey(ev.key, fp).kind = "None"
        /\ (pc = "returned" /\ ev.handled) =>
              (outcome.kind = "None" <=>
                   \/ ev.key.code = "Esc"
                   \/ ev.key.code = "Char" /\ ev.key.ch = "q"
                   \/ ev.key.code = "Char" /\ ev.key.ch = "c"
                         /\ ev.key.mods = "CONTROL")

\* Enter after toggles: a row not staged at entry is checked and a row
\* staged at entry is unchecked, so both lists are non-empty.
C39_Witness ==
    /\ screen = "files" /\ pc = "returned"
    /\ outcome.kind = "Some"
    /\ fp.toggled
    /\ outcome.to_stage # {}
    /\ outcome.to_unstage # {}

\* Enter with no toggling key handled, on rows of both kinds.
C39_NoToggleWitness ==
    /\ screen = "files" /\ pc = "returned"
    /\ outcome.kind = "Some"
    /\ ~fp.toggled
    /\ fp.staged # <<>> /\ fp.unstaged # <<>>
    /\ outcome.to_stage = {} /\ outcome.to_unstage = {}

\* A path with staged and unstaged changes has two rows; with the staged
\* row unchecked and the other checked the path is in both lists.
C39_BothListsWitness ==
    /\ screen = "files" /\ pc = "returned"
    /\ outcome.kind = "Some"
    /\ outcome.to_stage \cap outcome.to_unstage # {}

\* q after a toggle returns no result.
C39_CancelWitness ==
    /\ screen = "files" /\ pc = "returned"
    /\ outcome.kind = "None"
    /\ fp.toggled
    /\ ev.handled /\ ev.key.code = "Char" /\ ev.key.ch = "q"

\* Toggle-all on rows that were all checked has unchecked every row.
C39_ToggleAllWitness ==
    /\ screen = "files" /\ pc = "returned"
    /\ outcome.kind = "Some"
    /\ Len(fp.staged) = MaxFiles
    /\ fp.selected_files = {}
    /\ Cardinality(outcome.to_unstage) = MaxFiles
====
